---- MODULE Spec2Model ----
(***************************************************************************)
(* Bucket lifecycle coordinator of the rook object-bucket provisioner      *)
(* (Provision, Grant, Delete, Revoke) against a model of the RGW admin API *)
(* and the S3 data plane.  One lifecycle call runs at a time; every remote *)
(* call may fail.                                                          *)
(***************************************************************************)
EXTENDS Integers, Sequences, FiniteSets, TLC

\* ------------------------------------------------------------------ bounds
NumBuckets == 1
MaxRuns == 4

\* Each lifecycle call generates at most one user name, and never one used before.
UserIDs == 1..MaxRuns
BucketNames == 1..NumBuckets
\* The names a request or a binding can carry: a string field holds a bucket's
\* name or is empty (0).
RequestedNames == {0} \cup BucketNames

\* ------------------------------------------------------------------ errors
\* An error value: aws = it implements awserr.Error, code = what it reports.
NilErr == [aws |-> FALSE, code |-> "nil"]
Err(c) == [aws |-> FALSE, code |-> c]
AwsErr(c) == [aws |-> TRUE, code |-> c]

\* github.com/pkg/errors Wrap/Wrapf: nil stays nil, otherwise the cause is kept.
Wrapf(err, msg) == IF err = NilErr THEN NilErr ELSE err

\* ------------------------------------------------------------------ strings
\* A string is a sequence of one-character strings; "" is <<>>.
Digits == {"0", "1", "2", "3", "4", "5", "6", "7", "8", "9"}
DigitVal(c) == CASE c = "0" -> 0 [] c = "1" -> 1 [] c = "2" -> 2 [] c = "3" -> 3
                 [] c = "4" -> 4 [] c = "5" -> 5 [] c = "6" -> 6 [] c = "7" -> 7
                 [] c = "8" -> 8 [] c = "9" -> 9

RECURSIVE DecimalVal(_)
DecimalVal(s) == IF s = <<>> THEN 0
                 ELSE 10 * DecimalVal(SubSeq(s, 1, Len(s) - 1)) + DigitVal(s[Len(s)])

AllDigits(s) == s # <<>> /\ \A i \in 1..Len(s) : s[i] \in Digits

\* strconv.Atoi: optional sign, then decimal digits.
Atoi(s) ==
    LET signed == s # <<>> /\ s[1] \in {"+", "-"}
        body == IF signed THEN Tail(s) ELSE s
    IN  IF AllDigits(body)
        THEN [err |-> NilErr,
              val |-> IF signed /\ s[1] = "-" THEN 0 - DecimalVal(body) ELSE DecimalVal(body)]
        ELSE [err |-> Err("strconv.ErrSyntax"), val |-> 0]

\* resource.ParseQuantity(...).Value() for the forms <sign><digits><suffix>
\* with a binary (Ki, Mi, Gi) or decimal (k, M, G) suffix.
SuffixMul(x) == CASE x = <<>> -> 1
                  [] x = <<"K", "i">> -> 1024
                  [] x = <<"M", "i">> -> 1024 * 1024
                  [] x = <<"G", "i">> -> 1024 * 1024 * 1024
                  [] x = <<"k">> -> 1000
                  [] x = <<"M">> -> 1000 * 1000
                  [] x = <<"G">> -> 1000 * 1000 * 1000
                  [] OTHER -> 0

RECURSIVE DigitPrefixLen(_)
DigitPrefixLen(s) == IF s = <<>> \/ s[1] \notin Digits THEN 0 ELSE 1 + DigitPrefixLen(Tail(s))

maxSizeToInt64(maxSize) ==
    LET signed == maxSize # <<>> /\ maxSize[1] \in {"+", "-"}
        body == IF signed THEN Tail(maxSize) ELSE maxSize
        n == DigitPrefixLen(body)
        num == SubSeq(body, 1, n)
        suf == SubSeq(body, n + 1, Len(body))
    IN  IF n > 0 /\ SuffixMul(suf) # 0
        THEN [err |-> NilErr,
              val |-> (IF signed /\ maxSize[1] = "-" THEN 0 - 1 ELSE 1)
                      * DecimalVal(num) * SuffixMul(suf)]
        ELSE [err |-> Err("ErrFormatWrong"), val |-> 0]

\* ------------------------------------------------------------------ RGW
\* radosgw defaults for a user that was just created: 1000 buckets, quota off.
NoLimit == 0 - 1

NewQuota == [Enabled |-> FALSE, MaxObjects |-> NoLimit, MaxSize |-> NoLimit]
AbsentUser == [exists |-> FALSE, MaxBuckets |-> 0, UserQuota |-> NewQuota]
NewUser == [exists |-> TRUE, MaxBuckets |-> 1000, UserQuota |-> NewQuota]
AbsentBucket == [exists |-> FALSE, Owner |-> 0, hasPolicy |-> FALSE, Statement |-> <<>>]
\* The gateway's record of the bucket called name; no bucket has the empty name.
BucketAt(buckets, name) == IF name \in BucketNames THEN buckets[name] ELSE AbsentBucket

\* A policy statement as built by NewPolicyStatement()...Actions(AllowedActions...).
\* Resource is the bucket, SubResources says whether bucket/* is covered too.
PolicyStatement(user, bucket, effect) ==
    [Sid |-> user, Principal |-> user, Resource |-> bucket, SubResources |-> TRUE,
     Effect |-> effect, Action |-> "AllowedActions"]

\* ------------------------------------------------------------------ requests
MaxObjectsInputs == {<<>>, <<"5">>, <<"x">>}
MaxSizeInputs == {<<>>, <<"1", "K", "i">>}

InitFailures == {"none", "storageClass", "tlsCaCert", "adminOpsNotInitialized", "adminOps"}

\* ------------------------------------------------------------------ state
VARIABLES
    rgwUsers,    \* admin plane: user id -> user record
    rgwBuckets,  \* bucket name -> owner and policy document
    op,          \* the lifecycle call that is running or ran last
    pc,          \* position in the running call, "done" between calls
    p,           \* the call's Provisioner (receiver copy)
    loc,         \* locals of the running call
    calls,       \* the remote calls the running (or last) call has issued
    ret,         \* what the last call returned
    ob,          \* the binding handed to the running (or last) Delete or Revoke
    chained,     \* that binding is the one the call before, a Grant, returned
    initFailure, \* what the state resolution of the running (or last) call ran into
    runs         \* lifecycle calls started so far

vars == <<rgwUsers, rgwBuckets, op, pc, p, loc, calls, ret, ob, chained, initFailure, runs>>

ZeroP == [bucketName |-> 0, cephUserName |-> 0, accessKeyID |-> 0, secretAccessKey |-> 0,
          tlsCert |-> FALSE, adminOpsClient |-> FALSE]
ZeroLoc == [Owner |-> 0, hasPolicy |-> FALSE, Statement |-> <<>>, UserQuota |-> NewQuota]
NilOB == [nil |-> TRUE, BucketName |-> 0, AccessKeyID |-> 0, SecretAccessKey |-> 0, cephUser |-> 0]

UnsetQuotaSpec == [Enabled |-> "unset", MaxObjects |-> [set |-> FALSE, v |-> 0],
                   MaxSize |-> [set |-> FALSE, v |-> 0]]

\* One entry of the call log.
Call(api, uid, bucket, err) ==
    [api |-> api, uid |-> uid, bucket |-> bucket, exists |-> FALSE, MaxBuckets |-> 0,
     quota |-> UnsetQuotaSpec, Statement |-> <<>>, err |-> err]

Init ==
    /\ rgwUsers = [u \in UserIDs |-> AbsentUser]
    /\ rgwBuckets = [b \in BucketNames |-> AbsentBucket]
    /\ op = "none"
    /\ pc = "done"
    /\ p = ZeroP
    /\ loc = ZeroLoc
    /\ calls = <<>>
    /\ ret = [err |-> NilErr, ob |-> NilOB]
    /\ ob = NilOB
    /\ chained = FALSE
    /\ initFailure = "none"
    /\ runs = 0

\* ------------------------------------------------------------------ helpers
OperatorNotInitializedMessage == Err("NotInitialized")

\* isStaticBucket: the storage class names the bucket (0 = parameter absent).
isStaticBucket(sc) == sc.bucketName # 0

\* initializeCreateOrGrant on the receiver q: fail names the step of the
\* resolution that fails.
\* p.tlsCert and p.adminOpsClient record that the field has been assigned.
initializeCreateOrGrant(q, options, sc, fail) ==
    LET named == [q EXCEPT !.bucketName = IF isStaticBucket(sc) THEN sc.bucketName
                                              ELSE options.BucketName]
        secured == [named EXCEPT !.tlsCert = TRUE]
    IN  CASE fail = "storageClass" -> [err |-> Err("getStorageClass"), p |-> q]
          [] fail = "tlsCaCert" -> [err |-> Wrapf(Err("setTlsCaCert"), "failed to set CA cert"), p |-> named]
          [] fail = "adminOpsNotInitialized" -> [err |-> OperatorNotInitializedMessage, p |-> secured]
          [] fail = "adminOps" -> [err |-> Wrapf(Err("setAdminOpsAPIClient"), "failed to set admin ops api client"), p |-> secured]
          [] OTHER -> [err |-> NilErr, p |-> [secured EXCEPT !.adminOpsClient = TRUE]]

\* composeObjectBucket
composeObjectBucket(q) ==
    [nil |-> FALSE, BucketName |-> q.bucketName, AccessKeyID |-> q.accessKeyID,
     SecretAccessKey |-> q.secretAccessKey, cephUser |-> q.cephUserName]

\* deleteOBCResource: remove the user p.cephUserName; an absent user is no error.
deleteOBCResource(users, uid, bucketname, fail) ==
    IF fail
    THEN [err |-> Err("RemoveUser"), users |-> users,
          call |-> Call("DeleteUser", uid, bucketname, Err("RemoveUser"))]
    ELSE IF users[uid].exists
    THEN [err |-> NilErr, users |-> [users EXCEPT ![uid] = AbsentUser],
          call |-> Call("DeleteUser", uid, bucketname, NilErr)]
    ELSE [err |-> NilErr, users |-> users,
          call |-> Call("DeleteUser", uid, bucketname, Err("NoSuchUser"))]

\* deleteOBCResourceLogError: the error is logged and dropped.
deleteOBCResourceLogError(users, uid, bucketname, fail) ==
    LET r == deleteOBCResource(users, uid, bucketname, fail)
    IN  [users |-> r.users, call |-> r.call]

\* admin.API.SetUserQuota: the fields set in the spec replace the stored ones.
SetUserQuota(users, uid, spec, fail) ==
    LET old == users[uid].UserQuota
        new == [Enabled |-> IF spec.Enabled = "unset" THEN old.Enabled ELSE spec.Enabled = "true",
                MaxObjects |-> IF spec.MaxObjects.set THEN spec.MaxObjects.v ELSE old.MaxObjects,
                MaxSize |-> IF spec.MaxSize.set THEN spec.MaxSize.v ELSE old.MaxSize]
        e == IF fail THEN Err("SetUserQuota")
             ELSE IF ~users[uid].exists THEN Err("NoSuchUser") ELSE NilErr
    IN  [err |-> e,
         users |-> IF e = NilErr THEN [users EXCEPT ![uid].UserQuota = new] ELSE users,
         call |-> [Call("SetUserQuota", uid, 0, e) EXCEPT !.quota = spec]]

\* setAdditionalSettings: failAt is the SetUserQuota call (1 enable, 2 objects,
\* 3 size) that fails, 0 for none.  A conversion that fails is entered in the
\* call log as a failed step.
setAdditionalSettings(users, uid, cfg, failAt) ==
    LET maxObjects == cfg.maxObjects
        maxSize == cfg.maxSize
        r1 == SetUserQuota(users, uid, [UnsetQuotaSpec EXCEPT !.Enabled = "true"], failAt = 1)
        mo == Atoi(maxObjects)
        r2 == SetUserQuota(r1.users, uid,
                  [UnsetQuotaSpec EXCEPT !.MaxObjects = [set |-> TRUE, v |-> mo.val]], failAt = 2)
        s2 == IF maxObjects = <<>>
              THEN [err |-> NilErr, users |-> r1.users, calls |-> <<r1.call>>]
              ELSE IF mo.err # NilErr
              THEN [err |-> Wrapf(mo.err, "failed to convert maxObjects to integer"),
                    users |-> r1.users, calls |-> <<r1.call, Call("Atoi", uid, 0, mo.err)>>]
              ELSE [err |-> Wrapf(r2.err, "failed to set MaxObject"), users |-> r2.users,
                    calls |-> <<r1.call, r2.call>>]
        ms == maxSizeToInt64(maxSize)
        r3 == SetUserQuota(s2.users, uid,
                  [UnsetQuotaSpec EXCEPT !.MaxSize = [set |-> TRUE, v |-> ms.val]], failAt = 3)
    IN  IF maxObjects = <<>> /\ maxSize = <<>>
        THEN [err |-> NilErr, users |-> users, calls |-> <<>>]
        ELSE IF r1.err # NilErr
        THEN [err |-> Wrapf(r1.err, "failed to enable user quota"), users |-> users,
              calls |-> <<r1.call>>]
        ELSE IF s2.err # NilErr \/ maxSize = <<>>
        THEN s2
        ELSE IF ms.err # NilErr
        THEN [err |-> Wrapf(ms.err, "failed to parse maxSize quota"), users |-> s2.users,
              calls |-> Append(s2.calls, Call("maxSizeToInt64", uid, 0, ms.err))]
        ELSE [err |-> Wrapf(r3.err, "failed to set MaxSize"), users |-> r3.users,
              calls |-> Append(s2.calls, r3.call)]

\* Mutant: the lifecycle methods have pointer receivers, so what a call
\* resolved stays in the caller's Provisioner.
Return_PointerReceiver(e, o) ==
    /\ pc' = "done"
    /\ ret' = [err |-> e, ob |-> o]
    /\ UNCHANGED p
    /\ loc' = ZeroLoc

\* The call returns (ob, err).  The lifecycle methods have value receivers:
\* the call worked on a copy of the caller's Provisioner, which dies with the
\* locals, and the caller's Provisioner is as NewProvisioner made it.
Return(e, o) ==
    /\ pc' = "done"
    /\ ret' = [err |-> e, ob |-> o]
    /\ p' = ZeroP
    /\ loc' = ZeroLoc

\* ------------------------------------------------------------------ Provision
\* options.BucketName; options.ObjectBucketClaim.Spec.AdditionalConfig is first
\* read by setAdditionalSettings and is drawn there.
Options == [BucketName : RequestedNames]
AdditionalConfigs == [maxObjects : MaxObjectsInputs, maxSize : MaxSizeInputs]
StorageClasses == [bucketName : {0} \cup BucketNames]

\* The requests to try with an outcome of the state resolution: when the
\* resolution fails, the call returns the error of the failing step
\* whatever was requested, so one request stands for all.
RequestsFor(fail, requests) ==
    IF fail # "none" THEN {CHOOSE r \in requests : TRUE} ELSE requests

\* Provision, entry and initializeCreateOrGrant
ProvisionInitialize ==
    /\ pc = "done"
    /\ runs < MaxRuns
    /\ \E fail \in InitFailures : \E options \in RequestsFor(fail, Options), sc \in RequestsFor(fail, StorageClasses) :
        LET r == initializeCreateOrGrant(p, options, sc, fail)
        IN  /\ op' = "Provision"
            /\ runs' = runs + 1
            /\ initFailure' = fail
            /\ calls' = <<>>
            /\ ob' = NilOB
            /\ chained' = FALSE
            /\ IF r.err # NilErr
               THEN Return(r.err, NilOB)
               ELSE /\ pc' = "Provision_createCephUser"
                    /\ p' = r.p
                    /\ ret' = [err |-> NilErr, ob |-> NilOB]
                    /\ loc' = ZeroLoc
            /\ UNCHANGED <<rgwUsers, rgwBuckets>>

\* Mutant: the error of the cleanup, when it fails, is returned in place of e.
FailWithCleanup_MaskedError(users, cs, e, bucketname, delFail) ==
    LET d == deleteOBCResource(users, p.cephUserName, bucketname, delFail)
    IN  /\ rgwUsers' = d.users
        /\ calls' = Append(cs, d.call)
        /\ Return(IF d.err # NilErr THEN d.err ELSE e, NilOB)

\* "p.deleteOBCResourceLogError(name); return nil, err" after the calls cs
FailWithCleanup(users, cs, e, bucketname, delFail) ==
    LET d == deleteOBCResourceLogError(users, p.cephUserName, bucketname, delFail)
    IN  /\ rgwUsers' = d.users
        /\ calls' = Append(cs, d.call)
        /\ Return(e, NilOB)

\* genUserName: the name generated in this call, one never generated before.
genUserName == runs

\* createCephUser(""): the user of the generated name is created with a key pair.
createCephUser(u, fail) ==
    LET e == IF fail THEN Err("CreateUser")
             ELSE IF rgwUsers[u].exists THEN Err("UserExists") ELSE NilErr
    IN  [err |-> e, accessKeyID |-> IF e = NilErr THEN u ELSE 0,
         secretAccessKey |-> IF e = NilErr THEN u ELSE 0,
         users |-> IF e = NilErr THEN [rgwUsers EXCEPT ![u] = NewUser] ELSE rgwUsers,
         call |-> Call("CreateUser", u, 0, e)]

\* admin.API.ModifyUser with MaxBuckets set
ModifyUser(users, uid, maxBuckets, fail) ==
    LET e == IF fail THEN Err("ModifyUser")
             ELSE IF ~users[uid].exists THEN Err("NoSuchUser") ELSE NilErr
    IN  [err |-> e,
         users |-> IF e = NilErr THEN [users EXCEPT ![uid].MaxBuckets = maxBuckets] ELSE users,
         call |-> [Call("ModifyUser", uid, 0, e) EXCEPT !.MaxBuckets = maxBuckets]]

singleBucketQuota == 1

ProvisionCreateCephUser ==
    /\ pc = "Provision_createCephUser"
    /\ \E fail \in BOOLEAN :
        LET u == genUserName
            r == createCephUser(u, fail)
        IN  /\ calls' = Append(calls, r.call)
            /\ rgwUsers' = r.users
            /\ IF r.err # NilErr
               THEN Return(Wrapf(r.err, "Provision: can't create ceph user"), NilOB)
               ELSE /\ pc' = "Provision_NewS3Agent"
                    /\ p' = [p EXCEPT !.cephUserName = u, !.accessKeyID = r.accessKeyID,
                                      !.secretAccessKey = r.secretAccessKey]
                    /\ UNCHANGED <<ret, loc>>
    /\ UNCHANGED <<rgwBuckets, op, ob, chained, initFailure, runs>>

ProvisionNewS3Agent ==
    /\ pc = "Provision_NewS3Agent"
    /\ \E fail \in BOOLEAN, delFail \in BOOLEAN :
        LET e == IF fail THEN Err("NewS3Agent") ELSE NilErr
            cs == Append(calls, Call("NewS3Agent", p.cephUserName, 0, e))
        IN  IF e # NilErr
            THEN FailWithCleanup(rgwUsers, cs, e, 0, delFail)
            ELSE /\ pc' = "Provision_CreateBucket"
                 /\ calls' = cs
                 /\ UNCHANGED <<rgwUsers, p, ret, loc>>
    /\ UNCHANGED <<rgwBuckets, op, ob, chained, initFailure, runs>>

\* Mutant: a failed CreateBucket is not checked and Provision goes on.
ProvisionCreateBucket_Continues ==
    /\ pc = "Provision_CreateBucket"
    /\ \E fail \in BOOLEAN :
        LET e == IF fail THEN AwsErr("RequestError")
                 ELSE IF p.bucketName \notin BucketNames THEN AwsErr("InvalidParameter")
                 ELSE IF rgwBuckets[p.bucketName].exists THEN AwsErr("BucketAlreadyExists")
                 ELSE NilErr
        IN  /\ pc' = "Provision_ModifyUser"
            /\ calls' = Append(calls, Call("CreateBucket", p.cephUserName, p.bucketName, e))
            /\ rgwBuckets' = IF e # NilErr THEN rgwBuckets
                             ELSE [rgwBuckets EXCEPT ![p.bucketName] =
                                     [exists |-> TRUE, Owner |-> p.cephUserName,
                                      hasPolicy |-> FALSE, Statement |-> <<>>]]
            /\ UNCHANGED <<rgwUsers, p, ret, loc>>
    /\ UNCHANGED <<op, ob, chained, initFailure, runs>>

\* S3Agent.CreateBucket as the new user: the user becomes the bucket's owner.
ProvisionCreateBucket ==
    /\ pc = "Provision_CreateBucket"
    /\ \E fail \in BOOLEAN, delFail \in BOOLEAN :
        LET e == IF fail THEN AwsErr("RequestError")
                 ELSE IF p.bucketName \notin BucketNames THEN AwsErr("InvalidParameter")
                 ELSE IF rgwBuckets[p.bucketName].exists THEN AwsErr("BucketAlreadyExists")
                 ELSE NilErr
            cs == Append(calls, Call("CreateBucket", p.cephUserName, p.bucketName, e))
        IN  IF e # NilErr
            THEN /\ FailWithCleanup(rgwUsers, cs, Wrapf(e, "error creating bucket"), 0, delFail)
                 /\ UNCHANGED rgwBuckets
            ELSE /\ pc' = "Provision_ModifyUser"
                 /\ calls' = cs
                 /\ rgwBuckets' = [rgwBuckets EXCEPT ![p.bucketName] =
                        [exists |-> TRUE, Owner |-> p.cephUserName, hasPolicy |-> FALSE,
                         Statement |-> <<>>]]
                 /\ UNCHANGED <<rgwUsers, p, ret, loc>>
    /\ UNCHANGED <<op, ob, chained, initFailure, runs>>

\* Mutant: a failed ModifyUser returns the error without the cleanup.
ProvisionModifyUser_NoCleanup ==
    /\ pc = "Provision_ModifyUser"
    /\ \E fail \in BOOLEAN :
        LET r == ModifyUser(rgwUsers, p.cephUserName, singleBucketQuota, fail)
        IN  /\ calls' = Append(calls, r.call)
            /\ rgwUsers' = r.users
            /\ IF r.err # NilErr
               THEN Return(r.err, NilOB)
               ELSE /\ pc' = "Provision_setAdditionalSettings"
                    /\ UNCHANGED <<p, ret, loc>>
    /\ UNCHANGED <<rgwBuckets, op, ob, chained, initFailure, runs>>

ProvisionModifyUser ==
    /\ pc = "Provision_ModifyUser"
    /\ \E fail \in BOOLEAN, delFail \in BOOLEAN :
        LET r == ModifyUser(rgwUsers, p.cephUserName, singleBucketQuota, fail)
            cs == Append(calls, r.call)
        IN  IF r.err # NilErr
            THEN FailWithCleanup(r.users, cs, r.err, p.bucketName, delFail)
            ELSE /\ pc' = "Provision_setAdditionalSettings"
                 /\ calls' = cs
                 /\ rgwUsers' = r.users
                 /\ UNCHANGED <<p, ret, loc>>
    /\ UNCHANGED <<rgwBuckets, op, ob, chained, initFailure, runs>>

ProvisionSetAdditionalSettings ==
    /\ pc = "Provision_setAdditionalSettings"
    /\ \E cfg \in AdditionalConfigs, failAt \in 0..3, delFail \in BOOLEAN :
        LET r == setAdditionalSettings(rgwUsers, p.cephUserName, cfg, failAt)
            cs == calls \o r.calls
        IN  IF r.err # NilErr
            THEN FailWithCleanup(r.users, cs, r.err, p.bucketName, delFail)
            ELSE /\ calls' = cs
                 /\ rgwUsers' = r.users
                 /\ Return(NilErr, composeObjectBucket(p))
    /\ UNCHANGED <<rgwBuckets, op, ob, chained, initFailure, runs>>

Provision ==
    \/ ProvisionInitialize
    \/ ProvisionCreateCephUser
    \/ ProvisionNewS3Agent
    \/ ProvisionCreateBucket
    \/ ProvisionModifyUser
    \/ ProvisionSetAdditionalSettings

\* ------------------------------------------------------------------ Grant
UserExists(users, uid) == uid \in UserIDs /\ users[uid].exists

\* bucketExists: (exists, err); a bucket that is not there is reported without error.
bucketExists(buckets, name, fail) ==
    IF fail THEN [exists |-> FALSE, err |-> Err("GetBucketInfo")]
    ELSE [exists |-> BucketAt(buckets, name).exists, err |-> NilErr]

\* admin.API.GetBucketInfo
GetBucketInfo(buckets, name, fail) ==
    LET e == IF fail THEN Err("GetBucketInfo")
             ELSE IF ~BucketAt(buckets, name).exists THEN Err("NoSuchBucket") ELSE NilErr
    IN  [err |-> e, Owner |-> IF e = NilErr THEN BucketAt(buckets, name).Owner ELSE 0,
         call |-> Call("GetBucketInfo", 0, name, e)]

\* admin.API.GetUser
GetUser(users, uid, fail) ==
    LET e == IF fail THEN Err("GetUser")
             ELSE IF ~UserExists(users, uid) THEN Err("NoSuchUser") ELSE NilErr
    IN  [err |-> e, call |-> Call("GetUser", uid, 0, e)]

\* S3Agent.GetBucketPolicy: kind picks the stored answer, another AWS error, or
\* an error that is no awserr.Error (the document does not unmarshal); the
\* policy is nil whenever an error is returned.
GetBucketPolicyKinds == {"stored", "awsOther", "nonAws"}
GetBucketPolicy(buckets, name, kind) ==
    LET e == CASE kind = "awsOther" -> AwsErr("RequestError")
               [] kind = "nonAws" -> Err("json.Unmarshal")
               [] OTHER -> IF ~BucketAt(buckets, name).exists THEN AwsErr("NoSuchBucket")
                           ELSE IF ~BucketAt(buckets, name).hasPolicy THEN AwsErr("NoSuchBucketPolicy")
                           ELSE NilErr
    IN  [err |-> e, hasPolicy |-> e = NilErr,
         Statement |-> IF e = NilErr THEN BucketAt(buckets, name).Statement ELSE <<>>,
         call |-> Call("GetBucketPolicy", 0, name, e)]

\* S3Agent.PutBucketPolicy
PutBucketPolicy(buckets, name, statements, fail) ==
    LET e == IF fail THEN AwsErr("RequestError")
             ELSE IF ~BucketAt(buckets, name).exists THEN AwsErr("NoSuchBucket") ELSE NilErr
    IN  [err |-> e,
         buckets |-> IF e = NilErr
                     THEN [buckets EXCEPT ![name].hasPolicy = TRUE, ![name].Statement = statements]
                     ELSE buckets,
         call |-> [Call("PutBucketPolicy", 0, name, e) EXCEPT !.Statement = statements]]

\* NewBucketPolicy, BucketPolicy.ModifyBucketPolicy, BucketPolicy.DropPolicyStatements
NewBucketPolicy(statement) == <<statement>>
ModifyBucketPolicy(statements, statement) == Append(statements, statement)
DropPolicyStatements(statements, user) ==
    LET Keep(s) == s.Principal # user IN SelectSeq(statements, Keep)

\* Mutant: Grant limits the user as Provision does.
restrictBucketCreation_Single == singleBucketQuota

restrictBucketCreation == 0 - 1

\* Grant, entry and initializeCreateOrGrant
GrantInitialize ==
    /\ pc = "done"
    /\ runs < MaxRuns
    /\ \E fail \in InitFailures : \E options \in RequestsFor(fail, Options), sc \in RequestsFor(fail, StorageClasses) :
        LET r == initializeCreateOrGrant(p, options, sc, fail)
        IN  /\ op' = "Grant"
            /\ runs' = runs + 1
            /\ initFailure' = fail
            /\ calls' = <<>>
            /\ ob' = NilOB
            /\ chained' = FALSE
            /\ IF r.err # NilErr
               THEN Return(r.err, NilOB)
               ELSE /\ pc' = "Grant_bucketExists"
                    /\ p' = r.p
                    /\ ret' = [err |-> NilErr, ob |-> NilOB]
                    /\ loc' = ZeroLoc
            /\ UNCHANGED <<rgwUsers, rgwBuckets>>

GrantBucketExists ==
    /\ pc = "Grant_bucketExists"
    /\ \E fail \in BOOLEAN :
        LET r == bucketExists(rgwBuckets, p.bucketName, fail)
        IN  /\ calls' = Append(calls, [Call("BucketExists", 0, p.bucketName, r.err)
                                        EXCEPT !.exists = r.exists])
            /\ IF ~r.exists
               THEN Return(Wrapf(r.err, "bucket does not exist"), NilOB)
               ELSE /\ pc' = "Grant_createCephUser"
                    /\ UNCHANGED <<p, ret, loc>>
    /\ UNCHANGED <<rgwUsers, rgwBuckets, op, ob, chained, initFailure, runs>>

GrantCreateCephUser ==
    /\ pc = "Grant_createCephUser"
    /\ \E fail \in BOOLEAN :
        LET u == genUserName
            r == createCephUser(u, fail)
        IN  /\ calls' = Append(calls, r.call)
            /\ rgwUsers' = r.users
            /\ IF r.err # NilErr
               THEN Return(r.err, NilOB)
               ELSE /\ pc' = "Grant_ModifyUser"
                    /\ p' = [p EXCEPT !.cephUserName = u, !.accessKeyID = r.accessKeyID,
                                      !.secretAccessKey = r.secretAccessKey]
                    /\ UNCHANGED <<ret, loc>>
    /\ UNCHANGED <<rgwBuckets, op, ob, chained, initFailure, runs>>

GrantModifyUser ==
    /\ pc = "Grant_ModifyUser"
    /\ \E fail \in BOOLEAN, delFail \in BOOLEAN :
        LET r == ModifyUser(rgwUsers, p.cephUserName, restrictBucketCreation, fail)
            cs == Append(calls, r.call)
        IN  IF r.err # NilErr
            THEN FailWithCleanup(r.users, cs, r.err, 0, delFail)
            ELSE /\ pc' = "Grant_GetBucketInfo"
                 /\ calls' = cs
                 /\ rgwUsers' = r.users
                 /\ UNCHANGED <<p, ret, loc>>
    /\ UNCHANGED <<rgwBuckets, op, ob, chained, initFailure, runs>>

GrantGetBucketInfo ==
    /\ pc = "Grant_GetBucketInfo"
    /\ \E fail \in BOOLEAN, delFail \in BOOLEAN :
        LET r == GetBucketInfo(rgwBuckets, p.bucketName, fail)
            cs == Append(calls, r.call)
        IN  IF r.err # NilErr
            THEN FailWithCleanup(rgwUsers, cs, Wrapf(r.err, "failed to get bucket stats"), 0, delFail)
            ELSE /\ pc' = "Grant_GetUser"
                 /\ calls' = cs
                 /\ loc' = [loc EXCEPT !.Owner = r.Owner]
                 /\ UNCHANGED <<rgwUsers, p, ret>>
    /\ UNCHANGED <<rgwBuckets, op, ob, chained, initFailure, runs>>

GrantGetUser ==
    /\ pc = "Grant_GetUser"
    /\ \E fail \in BOOLEAN, delFail \in BOOLEAN :
        LET r == GetUser(rgwUsers, loc.Owner, fail)
            cs == Append(calls, r.call)
        IN  IF r.err # NilErr
            THEN FailWithCleanup(rgwUsers, cs, Wrapf(r.err, "failed to get user"), 0, delFail)
            ELSE /\ pc' = "Grant_NewS3Agent"
                 /\ calls' = cs
                 /\ UNCHANGED <<rgwUsers, p, ret, loc>>
    /\ UNCHANGED <<rgwBuckets, op, ob, chained, initFailure, runs>>

GrantNewS3Agent ==
    /\ pc = "Grant_NewS3Agent"
    /\ \E fail \in BOOLEAN, delFail \in BOOLEAN :
        LET e == IF fail THEN Err("NewS3Agent") ELSE NilErr
            cs == Append(calls, Call("NewS3Agent", loc.Owner, 0, e))
        IN  IF e # NilErr
            THEN FailWithCleanup(rgwUsers, cs, e, 0, delFail)
            ELSE /\ pc' = "Grant_GetBucketPolicy"
                 /\ calls' = cs
                 /\ UNCHANGED <<rgwUsers, p, ret, loc>>
    /\ UNCHANGED <<rgwBuckets, op, ob, chained, initFailure, runs>>

\* Grant's test of the GetBucketPolicy error: does Grant give up on it?
GrantPolicyErrorIsFatal(err) ==
    err # NilErr /\ err.aws /\ err.code # "NoSuchBucketPolicy"

GrantGetBucketPolicy ==
    /\ pc = "Grant_GetBucketPolicy"
    /\ \E kind \in GetBucketPolicyKinds, delFail \in BOOLEAN :
        LET r == GetBucketPolicy(rgwBuckets, p.bucketName, kind)
            cs == Append(calls, r.call)
        IN  IF GrantPolicyErrorIsFatal(r.err)
            THEN FailWithCleanup(rgwUsers, cs, r.err, 0, delFail)
            ELSE /\ pc' = "Grant_PutBucketPolicy"
                 /\ calls' = cs
                 /\ loc' = [loc EXCEPT !.hasPolicy = r.hasPolicy, !.Statement = r.Statement]
                 /\ UNCHANGED <<rgwUsers, p, ret>>
    /\ UNCHANGED <<rgwBuckets, op, ob, chained, initFailure, runs>>

\* The policy Grant writes: the fetched one, or a new one, with the statement.
GrantPolicy(q, l) ==
    LET statement == PolicyStatement(q.cephUserName, q.bucketName, "Allow")
    IN  IF ~l.hasPolicy THEN NewBucketPolicy(statement)
        ELSE ModifyBucketPolicy(l.Statement, statement)

GrantPutBucketPolicy ==
    /\ pc = "Grant_PutBucketPolicy"
    /\ \E fail \in BOOLEAN, delFail \in BOOLEAN :
        LET r == PutBucketPolicy(rgwBuckets, p.bucketName, GrantPolicy(p, loc), fail)
            cs == Append(calls, r.call)
        IN  IF r.err # NilErr
            THEN /\ FailWithCleanup(rgwUsers, cs, r.err, 0, delFail)
                 /\ UNCHANGED rgwBuckets
            ELSE /\ pc' = "Grant_setAdditionalSettings"
                 /\ calls' = cs
                 /\ rgwBuckets' = r.buckets
                 /\ UNCHANGED <<rgwUsers, p, ret, loc>>
    /\ UNCHANGED <<op, ob, chained, initFailure, runs>>

GrantSetAdditionalSettings ==
    /\ pc = "Grant_setAdditionalSettings"
    /\ \E cfg \in AdditionalConfigs, failAt \in 0..3, delFail \in BOOLEAN :
        LET r == setAdditionalSettings(rgwUsers, p.cephUserName, cfg, failAt)
            cs == calls \o r.calls
        IN  IF r.err # NilErr
            THEN FailWithCleanup(r.users, cs, r.err, 0, delFail)
            ELSE /\ calls' = cs
                 /\ rgwUsers' = r.users
                 /\ Return(NilErr, composeObjectBucket(p))
    /\ UNCHANGED <<rgwBuckets, op, ob, chained, initFailure, runs>>

Grant ==
    \/ GrantInitialize
    \/ GrantBucketExists
    \/ GrantCreateCephUser
    \/ GrantModifyUser
    \/ GrantGetBucketInfo
    \/ GrantGetUser
    \/ GrantNewS3Agent
    \/ GrantGetBucketPolicy
    \/ GrantPutBucketPolicy
    \/ GrantSetAdditionalSettings

\* ------------------------------------------------------------------ Delete
\* The bindings a caller can hand to Delete and Revoke.
ObjectBuckets == {composeObjectBucket([ZeroP EXCEPT !.bucketName = b, !.cephUserName = u,
                                              !.accessKeyID = u, !.secretAccessKey = u]) :
                     b \in RequestedNames, u \in UserIDs}

getBucketName(o) == o.BucketName
getCephUser(o) == o.cephUser

\* Mutant: the not-initialized failure is wrapped like any other.
initializeDeleteOrRevoke_WrapsAll(q, o, fail) ==
    LET named == [q EXCEPT !.bucketName = getBucketName(o), !.cephUserName = getCephUser(o)]
        secured == [named EXCEPT !.tlsCert = TRUE]
    IN  CASE fail = "storageClass" -> [err |-> Wrapf(Err("getStorageClass"), "failed to get storage class"), p |-> q]
          [] fail = "tlsCaCert" -> [err |-> Wrapf(Err("setTlsCaCert"), "failed to set CA cert"), p |-> named]
          [] fail \in {"adminOpsNotInitialized", "adminOps"} -> [err |-> Wrapf(Err("setAdminOpsAPIClient"), "failed to set admin ops api client"), p |-> secured]
          [] OTHER -> [err |-> NilErr, p |-> [secured EXCEPT !.adminOpsClient = TRUE]]

initializeDeleteOrRevoke(q, o, fail) ==
    LET named == [q EXCEPT !.bucketName = getBucketName(o), !.cephUserName = getCephUser(o)]
        secured == [named EXCEPT !.tlsCert = TRUE]
    IN  CASE fail = "storageClass" -> [err |-> Wrapf(Err("getStorageClass"), "failed to get storage class"), p |-> q]
          [] fail = "tlsCaCert" -> [err |-> Wrapf(Err("setTlsCaCert"), "failed to set CA cert"), p |-> named]
          [] fail = "adminOpsNotInitialized" -> [err |-> OperatorNotInitializedMessage, p |-> secured]
          [] fail = "adminOps" -> [err |-> Wrapf(Err("setAdminOpsAPIClient"), "failed to set admin ops api client"), p |-> secured]
          [] OTHER -> [err |-> NilErr, p |-> [secured EXCEPT !.adminOpsClient = TRUE]]

\* Delete, entry and initializeDeleteOrRevoke
DeleteInitialize ==
    /\ pc = "done"
    /\ runs < MaxRuns
    /\ \E fail \in InitFailures : \E o \in RequestsFor(fail, ObjectBuckets) :
        LET r == initializeDeleteOrRevoke(p, o, fail)
        IN  /\ op' = "Delete"
            /\ runs' = runs + 1
            /\ initFailure' = fail
            /\ calls' = <<>>
            /\ ob' = o
            /\ chained' = FALSE
            /\ IF r.err # NilErr
               THEN Return(r.err, NilOB)
               ELSE /\ pc' = "Delete_deleteOBCResource"
                    /\ p' = r.p
                    /\ ret' = [err |-> NilErr, ob |-> NilOB]
                    /\ UNCHANGED loc
            /\ UNCHANGED <<rgwUsers, rgwBuckets>>

\* Mutant: Delete logs a failed deletion as the cleanups do and returns nil.
DeleteDeleteOBCResource_LogsError ==
    /\ pc = "Delete_deleteOBCResource"
    /\ \E delFail \in BOOLEAN :
        LET d == deleteOBCResourceLogError(rgwUsers, p.cephUserName, p.bucketName, delFail)
        IN  /\ calls' = Append(calls, d.call)
            /\ rgwUsers' = d.users
            /\ Return(NilErr, NilOB)
    /\ UNCHANGED <<rgwBuckets, op, ob, chained, initFailure, runs>>

DeleteDeleteOBCResource ==
    /\ pc = "Delete_deleteOBCResource"
    /\ \E delFail \in BOOLEAN :
        LET r == deleteOBCResource(rgwUsers, p.cephUserName, p.bucketName, delFail)
        IN  /\ calls' = Append(calls, r.call)
            /\ rgwUsers' = r.users
            /\ Return(Wrapf(r.err, "failed to delete OBCResource bucket"), NilOB)
    /\ UNCHANGED <<rgwBuckets, op, ob, chained, initFailure, runs>>

Delete ==
    \/ DeleteInitialize
    \/ DeleteDeleteOBCResource

\* ------------------------------------------------------------------ Revoke
\* Revoke, entry and initializeDeleteOrRevoke
RevokeInitialize ==
    /\ pc = "done"
    /\ runs < MaxRuns
    /\ \E fail \in InitFailures : \E o \in RequestsFor(fail, ObjectBuckets) :
        LET r == initializeDeleteOrRevoke(p, o, fail)
        IN  /\ op' = "Revoke"
            /\ runs' = runs + 1
            /\ initFailure' = fail
            /\ calls' = <<>>
            /\ ob' = o
            /\ chained' = (op = "Grant" /\ ~ret.ob.nil /\ ret.ob = o)
            /\ IF r.err # NilErr
               THEN Return(r.err, NilOB)
               ELSE /\ pc' = "Revoke_GetBucketInfo"
                    /\ p' = r.p
                    /\ ret' = [err |-> NilErr, ob |-> NilOB]
                    /\ UNCHANGED loc
            /\ UNCHANGED <<rgwUsers, rgwBuckets>>

\* Mutant: only a transient lookup failure is logged, a missing bucket is not.
RevokeBucketInfoErrorIsLogged_OnlyTransient(err) == err # NilErr /\ err.code # "NoSuchBucket"

\* Revoke's reaction to a GetBucketInfo error: is the error only logged?
RevokeBucketInfoErrorIsLogged(err) == err # NilErr

RevokeGetBucketInfo ==
    /\ pc = "Revoke_GetBucketInfo"
    /\ \E fail \in BOOLEAN :
        LET r == GetBucketInfo(rgwBuckets, p.bucketName, fail)
        IN  /\ calls' = Append(calls, r.call)
            /\ IF RevokeBucketInfoErrorIsLogged(r.err)
               THEN /\ pc' = "Revoke_deleteOBCResource"
                    /\ UNCHANGED <<p, ret, loc>>
               ELSE IF r.Owner = 0
               THEN Return(Err("failed to find bucket owner"), NilOB)
               ELSE /\ pc' = "Revoke_GetUser"
                    /\ loc' = [loc EXCEPT !.Owner = r.Owner]
                    /\ UNCHANGED <<p, ret>>
    /\ UNCHANGED <<rgwUsers, rgwBuckets, op, ob, chained, initFailure, runs>>

\* Mutant: a missing owner account is returned as an error like any other.
RevokeGetUser_ReturnsEveryError ==
    /\ pc = "Revoke_GetUser"
    /\ \E fail \in BOOLEAN :
        LET r == GetUser(rgwUsers, loc.Owner, fail)
        IN  /\ calls' = Append(calls, r.call)
            /\ IF r.err # NilErr
               THEN Return(r.err, NilOB)
               ELSE /\ pc' = "Revoke_NewS3Agent"
                    /\ UNCHANGED <<p, ret, loc>>
    /\ UNCHANGED <<rgwUsers, rgwBuckets, op, ob, chained, initFailure, runs>>

RevokeGetUser ==
    /\ pc = "Revoke_GetUser"
    /\ \E fail \in BOOLEAN :
        LET r == GetUser(rgwUsers, loc.Owner, fail)
        IN  /\ calls' = Append(calls, r.call)
            /\ IF r.err # NilErr
               THEN IF r.err = Err("NoSuchUser")
                    THEN Return(NilErr, NilOB)
                    ELSE Return(r.err, NilOB)
               ELSE /\ pc' = "Revoke_NewS3Agent"
                    /\ UNCHANGED <<p, ret, loc>>
    /\ UNCHANGED <<rgwUsers, rgwBuckets, op, ob, chained, initFailure, runs>>

RevokeNewS3Agent ==
    /\ pc = "Revoke_NewS3Agent"
    /\ \E fail \in BOOLEAN :
        LET e == IF fail THEN Err("NewS3Agent") ELSE NilErr
        IN  /\ calls' = Append(calls, Call("NewS3Agent", loc.Owner, 0, e))
            /\ IF e # NilErr
               THEN Return(e, NilOB)
               ELSE /\ pc' = "Revoke_GetBucketPolicy"
                    /\ UNCHANGED <<p, ret, loc>>
    /\ UNCHANGED <<rgwUsers, rgwBuckets, op, ob, chained, initFailure, runs>>

RevokeGetBucketPolicy ==
    /\ pc = "Revoke_GetBucketPolicy"
    /\ \E kind \in GetBucketPolicyKinds :
        LET r == GetBucketPolicy(rgwBuckets, p.bucketName, kind)
        IN  /\ calls' = Append(calls, r.call)
            /\ IF r.err # NilErr /\ ~(r.err.aws /\ r.err.code = "NoSuchBucketPolicy")
               THEN Return(r.err, NilOB)
               ELSE /\ pc' = "Revoke_PutBucketPolicy"
                    /\ loc' = [loc EXCEPT !.hasPolicy = r.hasPolicy, !.Statement = r.Statement]
                    /\ UNCHANGED <<p, ret>>
    /\ UNCHANGED <<rgwUsers, rgwBuckets, op, ob, chained, initFailure, runs>>

\* The policy Revoke writes when the revoked user owns the bucket.
RevokeOwnerPolicy(q, l) ==
    LET statement == PolicyStatement(q.cephUserName, q.bucketName, "Deny")
    IN  IF ~l.hasPolicy THEN NewBucketPolicy(statement)
        ELSE ModifyBucketPolicy(l.Statement, statement)

\* The policy Revoke writes when the revoked user does not own the bucket.
RevokeDropPolicy(q, l) == DropPolicyStatements(l.Statement, q.cephUserName)

\* Mutant: the statements dropped are those of the bucket's owner.
RevokePutBucketPolicy_DropsOwner ==
    /\ pc = "Revoke_PutBucketPolicy"
    /\ \E fail \in BOOLEAN :
        IF loc.Owner = p.cephUserName
        THEN LET r == PutBucketPolicy(rgwBuckets, p.bucketName, RevokeOwnerPolicy(p, loc), fail)
             IN  /\ calls' = Append(calls, r.call)
                 /\ rgwBuckets' = r.buckets
                 /\ Return(Wrapf(r.err, "failed to update policy"), NilOB)
        ELSE IF loc.hasPolicy
        THEN LET r == PutBucketPolicy(rgwBuckets, p.bucketName,
                                      DropPolicyStatements(loc.Statement, loc.Owner), fail)
             IN  /\ calls' = Append(calls, r.call)
                 /\ rgwBuckets' = r.buckets
                 /\ IF r.err # NilErr
                    THEN Return(r.err, NilOB)
                    ELSE /\ pc' = "Revoke_deleteOBCResource"
                         /\ UNCHANGED <<p, ret, loc>>
        ELSE /\ pc' = "Revoke_deleteOBCResource"
             /\ UNCHANGED <<rgwBuckets, calls, p, ret, loc>>
    /\ UNCHANGED <<rgwUsers, op, ob, chained, initFailure, runs>>

\* Revoke from "if bucket.Owner == p.cephUserName" to the end of the else branch
RevokePutBucketPolicy ==
    /\ pc = "Revoke_PutBucketPolicy"
    /\ \E fail \in BOOLEAN :
        IF loc.Owner = p.cephUserName
        THEN LET r == PutBucketPolicy(rgwBuckets, p.bucketName, RevokeOwnerPolicy(p, loc), fail)
             IN  /\ calls' = Append(calls, r.call)
                 /\ rgwBuckets' = r.buckets
                 /\ Return(Wrapf(r.err, "failed to update policy"), NilOB)
        ELSE IF loc.hasPolicy
        THEN LET r == PutBucketPolicy(rgwBuckets, p.bucketName, RevokeDropPolicy(p, loc), fail)
             IN  /\ calls' = Append(calls, r.call)
                 /\ rgwBuckets' = r.buckets
                 /\ IF r.err # NilErr
                    THEN Return(r.err, NilOB)
                    ELSE /\ pc' = "Revoke_deleteOBCResource"
                         /\ UNCHANGED <<p, ret, loc>>
        ELSE /\ pc' = "Revoke_deleteOBCResource"
             /\ UNCHANGED <<rgwBuckets, calls, p, ret, loc>>
    /\ UNCHANGED <<rgwUsers, op, ob, chained, initFailure, runs>>

\* Mutant: the final deletion's error is returned.
RevokeDeleteOBCResource_ReturnsError ==
    /\ pc = "Revoke_deleteOBCResource"
    /\ \E delFail \in BOOLEAN :
        LET d == deleteOBCResource(rgwUsers, p.cephUserName, 0, delFail)
        IN  /\ calls' = Append(calls, d.call)
            /\ rgwUsers' = d.users
            /\ Return(d.err, NilOB)
    /\ UNCHANGED <<rgwBuckets, op, ob, chained, initFailure, runs>>

\* "finally, delete the user"
RevokeDeleteOBCResource ==
    /\ pc = "Revoke_deleteOBCResource"
    /\ \E delFail \in BOOLEAN :
        LET d == deleteOBCResourceLogError(rgwUsers, p.cephUserName, 0, delFail)
        IN  /\ calls' = Append(calls, d.call)
            /\ rgwUsers' = d.users
            /\ Return(NilErr, NilOB)
    /\ UNCHANGED <<rgwBuckets, op, ob, chained, initFailure, runs>>

Revoke ==
    \/ RevokeInitialize
    \/ RevokeGetBucketInfo
    \/ RevokeGetUser
    \/ RevokeNewS3Agent
    \/ RevokeGetBucketPolicy
    \/ RevokePutBucketPolicy
    \/ RevokeDeleteOBCResource

\* ------------------------------------------------------------------ Update
\* The requested limits Update reads from ob.Spec.Endpoint.AdditionalConfigData.
UpdateMaxObjectsInputs == {<<>>, <<"5">>, <<"-", "1">>, <<"x">>}
UpdateMaxSizeInputs == {<<>>, <<"1", "K", "i">>, <<"-", "1">>, <<"1", "x">>}

\* The bindings a caller can hand to Update: a binding and its additional config.
UpdateObjectBuckets ==
    {[nil |-> FALSE, BucketName |-> o.BucketName, AccessKeyID |-> o.AccessKeyID,
      SecretAccessKey |-> o.SecretAccessKey, cephUser |-> o.cephUser,
      AdditionalConfigData |-> [maxObjects |-> mo, maxSize |-> ms]] :
        o \in ObjectBuckets, mo \in UpdateMaxObjectsInputs, ms \in UpdateMaxSizeInputs}

\* A stored quota in the shape of a quota spec with every field set.
QuotaAsSpec(q) ==
    [Enabled |-> IF q.Enabled THEN "true" ELSE "false",
     MaxObjects |-> [set |-> TRUE, v |-> q.MaxObjects],
     MaxSize |-> [set |-> TRUE, v |-> q.MaxSize]]

\* Mutant: only absent limits disable the quota, negative ones are sent.
updateQuotaSpec_IgnoresNegative(cfg, UserQuota) ==
    LET maxObjects == cfg.maxObjects
        maxSize == cfg.maxSize
        maxObjectsInt64 == IF maxObjects # <<>> THEN Atoi(maxObjects).val ELSE 0
        maxSizeInt64 == IF maxSize # <<>> THEN maxSizeToInt64(maxSize).val ELSE 0
    IN  IF UserQuota.Enabled /\ maxObjects = <<>> /\ maxSize = <<>>
        THEN [UnsetQuotaSpec EXCEPT !.Enabled = "false"]
        ELSE [Enabled |-> "true",
              MaxObjects |-> IF maxObjects # <<>> /\ maxObjectsInt64 # UserQuota.MaxObjects
                             THEN [set |-> TRUE, v |-> maxObjectsInt64]
                             ELSE UnsetQuotaSpec.MaxObjects,
              MaxSize |-> IF maxSize # <<>> /\ maxSizeInt64 # UserQuota.MaxSize
                          THEN [set |-> TRUE, v |-> maxSizeInt64]
                          ELSE UnsetQuotaSpec.MaxSize]

\* Mutant: a requested limit is sent whether or not it differs from the stored one.
updateQuotaSpec_SendsEveryLimit(cfg, UserQuota) ==
    LET maxObjects == cfg.maxObjects
        maxSize == cfg.maxSize
        maxObjectsInt64 == IF maxObjects # <<>> THEN Atoi(maxObjects).val ELSE 0
        maxSizeInt64 == IF maxSize # <<>> THEN maxSizeToInt64(maxSize).val ELSE 0
    IN  IF /\ UserQuota.Enabled
           /\ (maxObjects = <<>> \/ maxObjectsInt64 < 0)
           /\ (maxSize = <<>> \/ maxSizeInt64 < 0)
        THEN [UnsetQuotaSpec EXCEPT !.Enabled = "false"]
        ELSE [Enabled |-> "true",
              MaxObjects |-> IF maxObjects # <<>>
                             THEN [set |-> TRUE, v |-> maxObjectsInt64]
                             ELSE UnsetQuotaSpec.MaxObjects,
              MaxSize |-> IF maxSize # <<>>
                          THEN [set |-> TRUE, v |-> maxSizeInt64]
                          ELSE UnsetQuotaSpec.MaxSize]

\* updateAdditionalSettings from "if *objectUser.UserQuota.Enabled &&" on: the
\* quota spec it sends, given the requested limits (already found parseable)
\* and the user's stored quota.
\* Mutant: with no limit requested a disabled quota is left as it is.
updateQuotaSpec_KeepsDisabled(cfg, UserQuota) ==
    LET maxObjects == cfg.maxObjects
        maxSize == cfg.maxSize
        maxObjectsInt64 == IF maxObjects # <<>> THEN Atoi(maxObjects).val ELSE 0
        maxSizeInt64 == IF maxSize # <<>> THEN maxSizeToInt64(maxSize).val ELSE 0
    IN  IF /\ (maxObjects = <<>> \/ maxObjectsInt64 < 0)
           /\ (maxSize = <<>> \/ maxSizeInt64 < 0)
        THEN [UnsetQuotaSpec EXCEPT !.Enabled = "false"]
        ELSE [Enabled |-> "true",
              MaxObjects |-> IF maxObjects # <<>> /\ maxObjectsInt64 # UserQuota.MaxObjects
                             THEN [set |-> TRUE, v |-> maxObjectsInt64]
                             ELSE UnsetQuotaSpec.MaxObjects,
              MaxSize |-> IF maxSize # <<>> /\ maxSizeInt64 # UserQuota.MaxSize
                          THEN [set |-> TRUE, v |-> maxSizeInt64]
                          ELSE UnsetQuotaSpec.MaxSize]

updateQuotaSpec(cfg, UserQuota) ==
    LET maxObjects == cfg.maxObjects
        maxSize == cfg.maxSize
        maxObjectsInt64 == IF maxObjects # <<>> THEN Atoi(maxObjects).val ELSE 0
        maxSizeInt64 == IF maxSize # <<>> THEN maxSizeToInt64(maxSize).val ELSE 0
    IN  IF /\ UserQuota.Enabled
           /\ (maxObjects = <<>> \/ maxObjectsInt64 < 0)
           /\ (maxSize = <<>> \/ maxSizeInt64 < 0)
        THEN [UnsetQuotaSpec EXCEPT !.Enabled = "false"]
        ELSE [Enabled |-> "true",
              MaxObjects |-> IF maxObjects # <<>> /\ maxObjectsInt64 # UserQuota.MaxObjects
                             THEN [set |-> TRUE, v |-> maxObjectsInt64]
                             ELSE UnsetQuotaSpec.MaxObjects,
              MaxSize |-> IF maxSize # <<>> /\ maxSizeInt64 # UserQuota.MaxSize
                          THEN [set |-> TRUE, v |-> maxSizeInt64]
                          ELSE UnsetQuotaSpec.MaxSize]

\* Update, entry and initializeDeleteOrRevoke
UpdateInitialize ==
    /\ pc = "done"
    /\ runs < MaxRuns
    /\ \E fail \in InitFailures : \E o \in RequestsFor(fail, UpdateObjectBuckets) :
        LET r == initializeDeleteOrRevoke(p, o, fail)
        IN  /\ op' = "Update"
            /\ runs' = runs + 1
            /\ initFailure' = fail
            /\ calls' = <<>>
            /\ ob' = o
            /\ chained' = FALSE
            /\ IF r.err # NilErr
               THEN Return(r.err, NilOB)
               ELSE /\ pc' = "Update_GetUser"
                    /\ p' = r.p
                    /\ ret' = [err |-> NilErr, ob |-> NilOB]
                    /\ UNCHANGED loc
            /\ UNCHANGED <<rgwUsers, rgwBuckets>>

\* Mutant: the error of the max-size conversion is not checked.
UpdateGetUser_SkipsSizeCheck ==
    /\ pc = "Update_GetUser"
    /\ \E fail \in BOOLEAN :
        LET maxObjects == ob.AdditionalConfigData.maxObjects
            mo == Atoi(maxObjects)
            r == GetUser(rgwUsers, getCephUser(ob), fail)
        IN  IF maxObjects # <<>> /\ mo.err # NilErr
            THEN /\ calls' = Append(calls, Call("Atoi", p.cephUserName, 0, mo.err))
                 /\ Return(Wrapf(mo.err, "failed to convert maxObjects to integer"), NilOB)
            ELSE IF r.err # NilErr
            THEN /\ calls' = Append(calls, r.call)
                 /\ Return(Wrapf(r.err, "failed to fetch user"), NilOB)
            ELSE /\ calls' = Append(calls, [r.call EXCEPT
                                   !.quota = QuotaAsSpec(rgwUsers[getCephUser(ob)].UserQuota)])
                 /\ pc' = "Update_SetUserQuota"
                 /\ loc' = [loc EXCEPT !.UserQuota = rgwUsers[getCephUser(ob)].UserQuota]
                 /\ UNCHANGED <<p, ret>>
    /\ UNCHANGED <<rgwUsers, rgwBuckets, op, ob, chained, initFailure, runs>>

\* updateAdditionalSettings up to the user lookup.  A conversion that fails is
\* entered in the call log as a failed step; the entry of the lookup carries
\* the quota it returned.
UpdateGetUser ==
    /\ pc = "Update_GetUser"
    /\ \E fail \in BOOLEAN :
        LET maxObjects == ob.AdditionalConfigData.maxObjects
            maxSize == ob.AdditionalConfigData.maxSize
            mo == Atoi(maxObjects)
            ms == maxSizeToInt64(maxSize)
            r == GetUser(rgwUsers, getCephUser(ob), fail)
        IN  IF maxObjects # <<>> /\ mo.err # NilErr
            THEN /\ calls' = Append(calls, Call("Atoi", p.cephUserName, 0, mo.err))
                 /\ Return(Wrapf(mo.err, "failed to convert maxObjects to integer"), NilOB)
            ELSE IF maxSize # <<>> /\ ms.err # NilErr
            THEN /\ calls' = Append(calls, Call("maxSizeToInt64", p.cephUserName, 0, ms.err))
                 /\ Return(Wrapf(ms.err, "failed to parse maxSize quota"), NilOB)
            ELSE IF r.err # NilErr
            THEN /\ calls' = Append(calls, r.call)
                 /\ Return(Wrapf(r.err, "failed to fetch user"), NilOB)
            ELSE /\ calls' = Append(calls, [r.call EXCEPT
                                   !.quota = QuotaAsSpec(rgwUsers[getCephUser(ob)].UserQuota)])
                 /\ pc' = "Update_SetUserQuota"
                 /\ loc' = [loc EXCEPT !.UserQuota = rgwUsers[getCephUser(ob)].UserQuota]
                 /\ UNCHANGED <<p, ret>>
    /\ UNCHANGED <<rgwUsers, rgwBuckets, op, ob, chained, initFailure, runs>>

\* Mutant: a failed quota update is followed by the cleanup Provision does.
UpdateSetUserQuota_CleansUp ==
    /\ pc = "Update_SetUserQuota"
    /\ \E fail \in BOOLEAN :
        LET r == SetUserQuota(rgwUsers, p.cephUserName,
                              updateQuotaSpec(ob.AdditionalConfigData, loc.UserQuota), fail)
            d == deleteOBCResourceLogError(r.users, p.cephUserName, p.bucketName, FALSE)
        IN  /\ calls' = IF r.err # NilErr THEN calls \o <<r.call, d.call>> ELSE Append(calls, r.call)
            /\ rgwUsers' = IF r.err # NilErr THEN d.users ELSE r.users
            /\ Return(Wrapf(r.err, "failed to update quota"), NilOB)
    /\ UNCHANGED <<rgwBuckets, op, ob, chained, initFailure, runs>>

\* updateAdditionalSettings from the disable decision to the end
UpdateSetUserQuota ==
    /\ pc = "Update_SetUserQuota"
    /\ \E fail \in BOOLEAN :
        LET r == SetUserQuota(rgwUsers, p.cephUserName,
                              updateQuotaSpec(ob.AdditionalConfigData, loc.UserQuota), fail)
        IN  /\ calls' = Append(calls, r.call)
            /\ rgwUsers' = r.users
            /\ Return(Wrapf(r.err, "failed to update quota"), NilOB)
    /\ UNCHANGED <<rgwBuckets, op, ob, chained, initFailure, runs>>

Update ==
    \/ UpdateInitialize
    \/ UpdateGetUser
    \/ UpdateSetUserQuota

Next ==
    \/ Provision
    \/ Grant
    \/ Delete
    \/ Revoke
    \/ Update

Spec == Init /\ [][Next]_vars

\* ------------------------------------------------------------------ properties
\* What the call log of the running (or last) call says.
Failed(i) == calls[i].err # NilErr
CreatedUsers == {calls[i].uid : i \in {j \in DOMAIN calls :
                                         calls[j].api = "CreateUser" /\ calls[j].err = NilErr}}
DeleteAttemptedAfter(i) ==
    \E j \in DOMAIN calls : j > i /\ calls[j].api = "DeleteUser" /\ calls[j].uid \in CreatedUsers
QuotaSteps == {"SetUserQuota", "Atoi", "maxSizeToInt64"}

\* C1: when Provision's ModifyUser(max-buckets = 1) fails, the deletion of the
\* user created in this call is attempted before Provision returns, and
\* Provision returns an error and no binding.
C1_ProvisionModifyUserFailureCleansUp ==
    (pc = "done" /\ op = "Provision") =>
        \A i \in DOMAIN calls :
            (calls[i].api = "ModifyUser" /\ calls[i].MaxBuckets = 1 /\ Failed(i)) =>
                /\ calls[i].uid \in CreatedUsers
                /\ DeleteAttemptedAfter(i)
                /\ ret.err # NilErr
                /\ ret.ob.nil

C1_Witness ==
    /\ pc = "done" /\ op = "Provision"
    /\ \E i \in DOMAIN calls : calls[i].api = "ModifyUser" /\ Failed(i) /\ DeleteAttemptedAfter(i)

\* C2: when Provision's CreateBucket or its quota application fails, the
\* deletion of the just-created user is the next thing attempted, no binding
\* is returned and the error returned is that of the failing step, whether
\* the deletion succeeds or fails.
C2_ProvisionCleanupKeepsOriginalError ==
    (pc = "done" /\ op = "Provision") =>
        \A i \in DOMAIN calls :
            (calls[i].api \in {"CreateBucket"} \cup QuotaSteps /\ Failed(i)) =>
                /\ Len(calls) = i + 1
                /\ calls[i + 1].api = "DeleteUser"
                /\ calls[i + 1].uid \in CreatedUsers
                /\ ret.ob.nil
                /\ ret.err = calls[i].err

C2_Witness ==
    /\ pc = "done" /\ op = "Provision"
    /\ \E i \in DOMAIN calls :
        /\ calls[i].api \in {"CreateBucket"} \cup QuotaSteps /\ Failed(i)
        /\ calls[Len(calls)].api = "DeleteUser" /\ Failed(Len(calls))

\* C3: Provision issues its calls in the order CreateUser, CreateBucket,
\* ModifyUser(max-buckets = 1), quota application, after the state was
\* resolved; a call is issued only if every earlier step succeeded; a binding
\* is returned exactly when all steps succeeded.
ProvisionRank(c) ==
    CASE c.api = "CreateUser" -> 1
      [] c.api = "NewS3Agent" -> 2
      [] c.api = "CreateBucket" -> 3
      [] c.api = "ModifyUser" -> 4
      [] c.api \in QuotaSteps -> 5
      [] OTHER -> 6
ProvisionAllSucceeded ==
    /\ \A r \in 1..4 : \E i \in DOMAIN calls : ProvisionRank(calls[i]) = r
    /\ \A i \in DOMAIN calls : ~Failed(i)

C3_ProvisionStepOrder ==
    op = "Provision" =>
        /\ \A i, j \in DOMAIN calls : i < j =>
            /\ ProvisionRank(calls[i]) <= ProvisionRank(calls[j])
            /\ ProvisionRank(calls[j]) <= 4 => ProvisionRank(calls[i]) < ProvisionRank(calls[j])
        /\ \A j \in DOMAIN calls : ProvisionRank(calls[j]) <= 5 =>
            /\ \A i \in 1..(j - 1) : ~Failed(i)
            /\ \A r \in 1..4 : r < ProvisionRank(calls[j]) =>
                \E i \in 1..(j - 1) : ProvisionRank(calls[i]) = r
            /\ calls[j].api = "ModifyUser" => calls[j].MaxBuckets = 1
        /\ (pc # "done" /\ calls # <<>>) => p.adminOpsClient
        /\ pc = "done" => /\ ~ret.ob.nil <=> ProvisionAllSucceeded
                          /\ ~ret.ob.nil => ret.err = NilErr

C3_Witness ==
    /\ pc = "done" /\ op = "Provision" /\ ~ret.ob.nil
    /\ \E i \in DOMAIN calls : calls[i].api = "SetUserQuota"


\* The bucket's policy document as it is stored, empty when there is none.
CurrentPolicy(b) == IF BucketAt(rgwBuckets, b).hasPolicy THEN BucketAt(rgwBuckets, b).Statement ELSE <<>>
NoPolicyYet(i) == calls[i].api = "GetBucketPolicy" /\ calls[i].err = AwsErr("NoSuchBucketPolicy")
Names(statements, user) == \E k \in DOMAIN statements : statements[k].Principal = user

\* C4: when the existence check reports that the bucket does not exist, with
\* or without an error, Grant returns an error and no binding, creates no
\* user and writes no policy.
C4_GrantFailsWhenBucketAbsent ==
    (pc = "done" /\ op = "Grant") =>
        \A i \in DOMAIN calls :
            (calls[i].api = "BucketExists" /\ ~calls[i].exists) =>
                /\ ret.err # NilErr
                /\ ret.ob.nil
                /\ \A j \in DOMAIN calls : calls[j].api \notin {"CreateUser", "PutBucketPolicy"}

\* C5: in Grant, once the user was created, the failure of any later step is
\* followed by an attempt to delete that user before Grant returns the error.
C5_GrantFailureAfterUserCreationCleansUp ==
    (pc = "done" /\ op = "Grant" /\ CreatedUsers # {}) =>
        \A i \in DOMAIN calls :
            (/\ Failed(i)
             /\ calls[i].api \notin {"BucketExists", "CreateUser", "DeleteUser"}
             /\ ~NoPolicyYet(i)) =>
                /\ DeleteAttemptedAfter(i)
                /\ ret.err # NilErr

\* C6: in Grant, a GetBucketPolicy failure other than "no policy yet", of any
\* error kind, is returned by Grant and no policy is written.
C6_GrantReturnsPolicyFetchError ==
    (pc = "done" /\ op = "Grant") =>
        \A i \in DOMAIN calls :
            (calls[i].api = "GetBucketPolicy" /\ Failed(i) /\ ~NoPolicyYet(i)) =>
                /\ ret.err = calls[i].err
                /\ \A j \in DOMAIN calls : calls[j].api # "PutBucketPolicy"

\* C7: the policy document Grant writes is the bucket's current policy (empty
\* if none) with one allow statement for the new user appended: principal
\* the new user, resources the bucket and its sub-resources, the fixed
\* allowed-action set; all other statements are carried over unchanged.
C7_GrantWritesCurrentPolicyPlusAllow ==
    pc = "Grant_PutBucketPolicy" =>
        GrantPolicy(p, loc) =
            Append(CurrentPolicy(p.bucketName),
                   [Sid |-> p.cephUserName, Principal |-> p.cephUserName,
                    Resource |-> p.bucketName, SubResources |-> TRUE,
                    Effect |-> "Allow", Action |-> "AllowedActions"])

\* C8: in Grant, the new user's max-buckets is set to -1 before any policy is
\* read or written, and a Grant that returns a binding leaves the user of
\* that binding with max-buckets = -1.
C8_GrantRestrictsBucketCreation ==
    op = "Grant" =>
        /\ \A j \in DOMAIN calls :
            calls[j].api \in {"GetBucketPolicy", "PutBucketPolicy"} =>
                \E i \in 1..(j - 1) :
                    /\ calls[i].api = "ModifyUser" /\ ~Failed(i)
                    /\ calls[i].MaxBuckets = 0 - 1
                    /\ calls[i].uid \in CreatedUsers
        /\ (pc = "done" /\ ~ret.ob.nil) =>
            /\ ret.ob.cephUser \in CreatedUsers
            /\ rgwUsers[ret.ob.cephUser].exists
            /\ rgwUsers[ret.ob.cephUser].MaxBuckets = 0 - 1

C8_Witness ==
    /\ pc = "done" /\ op = "Grant" /\ ~ret.ob.nil
    /\ \E j \in DOMAIN calls : calls[j].api = "PutBucketPolicy"

\* C9: a successful Grant followed immediately by a successful Revoke with
\* the binding Grant returned leaves no statement naming that user in the
\* bucket's policy.
C9_GrantThenRevokeLeavesNoStatement ==
    (pc = "done" /\ op = "Revoke" /\ chained /\ ret.err = NilErr) =>
        ~Names(BucketAt(rgwBuckets, ob.BucketName).Statement, ob.cephUser)

\* C10: when the bucket's current owner is the user being revoked, Revoke
\* never attempts to delete that user's account; the policy it writes is the
\* current policy (or a new one) with a deny statement for that user added,
\* and once the policy was fetched it ends with that write and returns what
\* the write returned.
RevokedUserOwnsBucket ==
    /\ ~ob.nil
    /\ BucketAt(rgwBuckets, ob.BucketName).exists
    /\ BucketAt(rgwBuckets, ob.BucketName).Owner = ob.cephUser

RevokeFetchedPolicy ==
    \E j \in DOMAIN calls :
        calls[j].api = "GetBucketPolicy" /\ (~Failed(j) \/ NoPolicyYet(j))

C10_RevokeOfOwnerWritesDenyAndKeepsUser ==
    (op = "Revoke" /\ RevokedUserOwnsBucket) =>
        /\ \A i \in DOMAIN calls : calls[i].api # "DeleteUser"
        /\ pc = "Revoke_PutBucketPolicy" =>
            RevokeOwnerPolicy(p, loc) =
                Append(CurrentPolicy(p.bucketName),
                       [Sid |-> p.cephUserName, Principal |-> p.cephUserName,
                        Resource |-> p.bucketName, SubResources |-> TRUE,
                        Effect |-> "Deny", Action |-> "AllowedActions"])
        /\ (pc = "done" /\ RevokeFetchedPolicy) =>
            /\ calls[Len(calls)].api = "PutBucketPolicy"
            /\ \E k \in DOMAIN calls[Len(calls)].Statement :
                /\ calls[Len(calls)].Statement[k].Principal = ob.cephUser
                /\ calls[Len(calls)].Statement[k].Effect = "Deny"
            /\ ret.err = calls[Len(calls)].err

\* What the call log of a Revoke or Delete says.
PolicyCalls == {"GetBucketPolicy", "PutBucketPolicy"}
TouchesPolicy == \E j \in DOMAIN calls : calls[j].api \in PolicyCalls
DeletionFailed(i) == calls[i].api = "DeleteUser" /\ calls[i].err = Err("RemoveUser")
LastCallDeletesRevokedUser ==
    /\ calls # <<>>
    /\ calls[Len(calls)].api = "DeleteUser"
    /\ calls[Len(calls)].uid = ob.cephUser

\* C11: when Revoke's bucket info lookup fails because the bucket cannot be
\* found, Revoke reads and writes no policy, attempts to delete the revoked
\* user and returns success.
C11_RevokeOfVanishedBucketDeletesUser ==
    (pc = "done" /\ op = "Revoke") =>
        \A i \in DOMAIN calls :
            (calls[i].api = "GetBucketInfo" /\ calls[i].err = Err("NoSuchBucket")) =>
                /\ ~TouchesPolicy
                /\ LastCallDeletesRevokedUser
                /\ ret.err = NilErr

C11_Witness ==
    /\ pc = "done" /\ op = "Revoke" /\ LastCallDeletesRevokedUser
    /\ \E i \in DOMAIN calls :
        calls[i].api = "GetBucketInfo" /\ calls[i].err = Err("NoSuchBucket")

\* C12: when the bucket exists but its owner's account no longer does, Revoke
\* returns success without reading or writing the policy; any other failure
\* of the owner lookup is returned as the error.
C12_RevokeOwnerLookupFailure ==
    (pc = "done" /\ op = "Revoke") =>
        \A i \in DOMAIN calls :
            (calls[i].api = "GetUser" /\ Failed(i)) =>
                /\ BucketAt(rgwBuckets, ob.BucketName).exists
                /\ ~TouchesPolicy
                /\ i = Len(calls)
                /\ ret.err = IF calls[i].err = Err("NoSuchUser") THEN NilErr ELSE calls[i].err

C12_Witness ==
    /\ pc = "done" /\ op = "Revoke" /\ ret.err = NilErr
    /\ \E i \in DOMAIN calls : calls[i].api = "GetUser" /\ calls[i].err = Err("NoSuchUser")

\* C13 as stated: every Revoke that returns success, other than the one of
\* the bucket's owner, has attempted to delete the revoked user, and a
\* failure of that deletion does not make Revoke fail.
RevokeReturnedSuccess == pc = "done" /\ op = "Revoke" /\ ret.err = NilErr
RevokeTookOwnerBranch ==
    \E j \in DOMAIN calls :
        /\ calls[j].api = "PutBucketPolicy"
        /\ \E i \in 1..(j - 1) : calls[i].api = "GetUser" /\ calls[i].uid = ob.cephUser
RevokeFoundOwnerGone ==
    \E i \in DOMAIN calls : calls[i].api = "GetUser" /\ calls[i].err = Err("NoSuchUser")

C13_Original_EverySuccessfulRevokeDeletes ==
    /\ (RevokeReturnedSuccess /\ ~RevokeTookOwnerBranch) => LastCallDeletesRevokedUser
    /\ (pc = "done" /\ op = "Revoke") =>
        \A i \in DOMAIN calls : DeletionFailed(i) => ret.err = NilErr

\* C13: every Revoke that returns success, other than the one of the bucket's
\* owner and the one that found the owner's account gone, has attempted to
\* delete the revoked user as its last step, and a failure of that deletion
\* does not make Revoke fail.
C13_SuccessfulRevokeDeletesUnlessOwnerGone ==
    /\ (RevokeReturnedSuccess /\ ~RevokeTookOwnerBranch /\ ~RevokeFoundOwnerGone) =>
        LastCallDeletesRevokedUser
    /\ (RevokeReturnedSuccess /\ (RevokeTookOwnerBranch \/ RevokeFoundOwnerGone)) =>
        \A i \in DOMAIN calls : calls[i].api # "DeleteUser"
    /\ (pc = "done" /\ op = "Revoke") =>
        \A i \in DOMAIN calls : DeletionFailed(i) => ret.err = NilErr

C13_Witness ==
    /\ RevokeReturnedSuccess /\ ~RevokeTookOwnerBranch /\ ~RevokeFoundOwnerGone
    /\ DeletionFailed(Len(calls))
    /\ TouchesPolicy

\* C14: for a user who does not own the bucket, the policy Revoke writes back
\* is the current policy without the statements whose principal is the
\* revoked user: the other statements stay, unaltered and in order, and none
\* of the revoked user remains.
RECURSIVE Without(_, _)
Without(statements, user) ==
    IF statements = <<>> THEN <<>>
    ELSE IF statements[1].Principal = user THEN Without(Tail(statements), user)
    ELSE <<statements[1]>> \o Without(Tail(statements), user)

C14_RevokeDropsOnlyRevokedUsersStatements ==
    /\ (pc = "Revoke_PutBucketPolicy" /\ loc.Owner # p.cephUserName /\ loc.hasPolicy) =>
        /\ loc.Statement = CurrentPolicy(p.bucketName)
        /\ RevokeDropPolicy(p, loc) = Without(CurrentPolicy(p.bucketName), ob.cephUser)
    /\ (pc = "Revoke_deleteOBCResource" /\ calls[Len(calls)].api = "PutBucketPolicy") =>
        /\ calls[Len(calls)].Statement = Without(loc.Statement, ob.cephUser)
        /\ BucketAt(rgwBuckets, ob.BucketName).Statement = calls[Len(calls)].Statement
        /\ ~Names(BucketAt(rgwBuckets, ob.BucketName).Statement, ob.cephUser)

C14_Witness ==
    /\ pc = "Revoke_deleteOBCResource" /\ calls[Len(calls)].api = "PutBucketPolicy"
    /\ Names(loc.Statement, ob.cephUser)
    /\ calls[Len(calls)].Statement # <<>>

\* What Delete's call log and result say: one call at most, the deletion of
\* the binding's user, whose failure is the error returned.
DeleteCallsOnlyDeleteUser ==
    op = "Delete" =>
        /\ Len(calls) <= 1
        /\ \A i \in DOMAIN calls : calls[i].api = "DeleteUser" /\ calls[i].uid = ob.cephUser
        /\ (pc = "done" /\ calls # <<>>) =>
            ret.err = IF DeletionFailed(1) THEN calls[1].err ELSE NilErr
        /\ (pc = "done" /\ calls # <<>> /\ ~DeletionFailed(1)) => ~rgwUsers[ob.cephUser].exists

UpdateCalls == {"GetUser", "SetUserQuota"}
Conversions == {"Atoi", "maxSizeToInt64"}
Requested == ob.AdditionalConfigData
UpdateLookedUpUser ==
    /\ op = "Update" /\ calls # <<>>
    /\ calls[1].api = "GetUser" /\ ~Failed(1)
StoredQuota == calls[1].quota
AbsentOrNegative(limit, parsed) == limit = <<>> \/ parsed.val < 0
DisableCondition ==
    /\ StoredQuota.Enabled = "true"
    /\ AbsentOrNegative(Requested.maxObjects, Atoi(Requested.maxObjects))
    /\ AbsentOrNegative(Requested.maxSize, maxSizeToInt64(Requested.maxSize))
SentOneQuotaUpdate ==
    /\ Len(calls) = 2
    /\ calls[2].api = "SetUserQuota"
    /\ calls[2].uid = ob.cephUser
    /\ ret.err = calls[2].err

\* C16: Update issues only a user lookup and quota updates: no step of it
\* creates or deletes a user or changes a user's max-buckets, and no step
\* changes a bucket or its policy, on any path.
C16_UpdateTouchesOnlyQuota ==
    /\ [](op = "Update" =>
            \A i \in DOMAIN calls :
                /\ calls[i].api \in UpdateCalls \cup Conversions
                /\ calls[i].api \in UpdateCalls => calls[i].uid = ob.cephUser)
    /\ [][op' = "Update" =>
            /\ rgwBuckets' = rgwBuckets
            /\ \A u \in UserIDs :
                /\ rgwUsers'[u].exists = rgwUsers[u].exists
                /\ rgwUsers'[u].MaxBuckets = rgwUsers[u].MaxBuckets]_vars

C16_Witness ==
    /\ pc = "done" /\ UpdateLookedUpUser /\ ret.err = NilErr
    /\ rgwUsers[ob.cephUser].UserQuota.Enabled
    /\ rgwUsers[ob.cephUser].UserQuota.MaxObjects = 5

\* C17: when the stored quota is enabled and each requested limit is absent
\* or negative, Update sends exactly one quota update, with enabled = false
\* and neither limit set, and returns what that update returned.
C17_UpdateDisablesQuota ==
    (pc = "done" /\ UpdateLookedUpUser /\ DisableCondition) =>
        /\ SentOneQuotaUpdate
        /\ calls[2].quota = [Enabled |-> "false",
                             MaxObjects |-> [set |-> FALSE, v |-> 0],
                             MaxSize |-> [set |-> FALSE, v |-> 0]]
        /\ ret.err = NilErr =>
            rgwUsers[ob.cephUser].UserQuota =
                [Enabled |-> FALSE, MaxObjects |-> StoredQuota.MaxObjects.v,
                 MaxSize |-> StoredQuota.MaxSize.v]

C17_Witness ==
    /\ pc = "done" /\ UpdateLookedUpUser /\ DisableCondition /\ ret.err = NilErr
    /\ Requested.maxObjects = <<"-", "1">>
    /\ Requested.maxSize = <<>>

\* C18: when the disable condition does not hold, Update sends exactly one
\* quota update, with enabled = true; it carries max-objects exactly when a
\* max-objects value was requested and differs from the stored one, and
\* max-size likewise; a carried limit is the requested value.
C18_UpdateSendsChangedLimits ==
    (pc = "done" /\ UpdateLookedUpUser /\ ~DisableCondition) =>
        /\ SentOneQuotaUpdate
        /\ calls[2].quota.Enabled = "true"
        /\ calls[2].quota.MaxObjects.set <=>
            /\ Requested.maxObjects # <<>>
            /\ Atoi(Requested.maxObjects).val # StoredQuota.MaxObjects.v
        /\ calls[2].quota.MaxObjects.set =>
            calls[2].quota.MaxObjects.v = Atoi(Requested.maxObjects).val
        /\ calls[2].quota.MaxSize.set <=>
            /\ Requested.maxSize # <<>>
            /\ maxSizeToInt64(Requested.maxSize).val # StoredQuota.MaxSize.v
        /\ calls[2].quota.MaxSize.set =>
            calls[2].quota.MaxSize.v = maxSizeToInt64(Requested.maxSize).val

C18_Witness ==
    /\ pc = "done" /\ UpdateLookedUpUser /\ ~DisableCondition /\ ret.err = NilErr
    /\ Requested.maxObjects = <<"5">> /\ StoredQuota.MaxObjects.v = 5
    /\ ~calls[2].quota.MaxObjects.set
    /\ calls[2].quota.MaxSize.set

\* C19: when the requested max-objects or max-size string does not parse,
\* Update returns the parse error, sends no quota update, and no step of it
\* changes a user's stored quota.
Unparseable(cfg) ==
    \/ cfg.maxObjects # <<>> /\ Atoi(cfg.maxObjects).err # NilErr
    \/ cfg.maxSize # <<>> /\ maxSizeToInt64(cfg.maxSize).err # NilErr

C19_UpdateParseErrorSendsNothing ==
    /\ []((op = "Update" /\ Unparseable(Requested)) =>
            /\ \A i \in DOMAIN calls : calls[i].api \notin UpdateCalls
            /\ (pc = "done" /\ initFailure = "none") =>
                /\ Len(calls) = 1
                /\ calls[1].api \in Conversions
                /\ ret.err \in {Err("strconv.ErrSyntax"), Err("ErrFormatWrong")}
                /\ ret.err = calls[1].err)
    /\ [][(op' = "Update" /\ Unparseable(ob'.AdditionalConfigData)) => rgwUsers' = rgwUsers]_vars

C19_Witness ==
    /\ pc = "done" /\ op = "Update" /\ initFailure = "none"
    /\ Requested.maxSize = <<"1", "x">>
    /\ Requested.maxObjects = <<"5">>
    /\ rgwUsers[ob.cephUser].exists

\* C20: in every lifecycle operation, when building the admin API client
\* fails because the backing cluster is not initialized, the operation
\* returns the not-initialized error itself and issues no call; any other
\* failure to build the client returns an error that is not that one.
C20_NotInitializedIsDistinguished ==
    /\ (pc = "done" /\ initFailure = "adminOpsNotInitialized") =>
        /\ ret.err = OperatorNotInitializedMessage
        /\ ret.ob.nil
        /\ calls = <<>>
    /\ (pc = "done" /\ initFailure = "adminOps") =>
        /\ ret.err \notin {NilErr, OperatorNotInitializedMessage}
        /\ ret.ob.nil
        /\ calls = <<>>
    /\ initFailure # "none" => pc = "done"

C20_Witness ==
    /\ pc = "done" /\ initFailure = "adminOpsNotInitialized" /\ op = "Update"
    /\ ret.err = OperatorNotInitializedMessage

\* ------------------------------------------------------------------ C21
\* The admin-plane calls that name a bucket.
BucketAdminCalls == {"BucketExists", "GetBucketInfo"}
\* A call is entered in the log by this step.
IssuesCall == calls' # calls /\ calls' # <<>>
ResolvedBeforeCalls == [][IssuesCall => p.tlsCert /\ p.adminOpsClient]_vars
BucketCallsNameABucket ==
    \A i \in DOMAIN calls : calls[i].api \in BucketAdminCalls => calls[i].bucket # 0

\* C21: in every run of every lifecycle operation, a call is issued only once
\* the TLS material and the admin API client are both set in the call's
\* Provisioner, and no admin-plane call that names the bucket is issued with
\* an empty bucket name.
C21_CallsOnlyAfterResolutionWithBucketName ==
    ResolvedBeforeCalls /\ []BucketCallsNameABucket

\* ------------------------------------------------------------------ C22
CreateOrGrant == {"Provision", "Grant"}
\* A lifecycle call starts and its state resolution succeeds.
CallStarts == pc = "done" /\ pc' # "done"
\* What the call's Provisioner holds right after the resolution comes from
\* this call's request alone.
ResolvedFromRequestAlone ==
    /\ p'.accessKeyID = 0
    /\ p'.secretAccessKey = 0
    /\ p'.cephUserName = IF op' \in CreateOrGrant THEN 0 ELSE getCephUser(ob')
    /\ op' \notin CreateOrGrant => p'.bucketName = getBucketName(ob')

\* C22: what a lifecycle call resolves (bucket name, user name, keys, TLS
\* material, admin client) is confined to the call: whenever no call is
\* running the caller's Provisioner has the field values it was constructed
\* with, and a call that starts holds nothing an earlier call resolved.
C22_ProvisionerStateIsPerCall ==
    [](pc = "done" => p = ZeroP) /\ [][CallStarts => ResolvedFromRequestAlone]_vars
\* A Provision that created a user and resolved its keys has returned.
C22_Witness ==
    /\ pc = "done" /\ op = "Provision" /\ ret.err = NilErr
    /\ ret.ob.AccessKeyID # 0 /\ ret.ob.cephUser # 0

\* ================================================================== operator settings
\* getPortFromConfig and getToleration are free functions: they read one
\* operator setting and convert it.  ConfigSpec calls them on every setting of
\* a bounded set; op is the function called, loc its arguments and the
\* setting it found, ret what it returned.  The functions keep no state, so a
\* behaviour is one call.
MaxSettingLen == 2

Spaces == {" ", "\t"}
SettingChars == {"0", "7", " ", "x"}
\* strings.TrimSpace
RECURSIVE TrimLeft(_)
TrimLeft(s) == IF s # <<>> /\ s[1] \in Spaces THEN TrimLeft(Tail(s)) ELSE s
RECURSIVE TrimRight(_)
TrimRight(s) == IF s # <<>> /\ s[Len(s)] \in Spaces THEN TrimRight(SubSeq(s, 1, Len(s) - 1)) ELSE s
TrimSpace(s) == TrimRight(TrimLeft(s))

\* A 64-bit unsigned value is kept as its decimal numeral without leading
\* zeros (<<>> is zero), so that no value is cut to fit.
RECURSIVE StripZeros(_)
StripZeros(s) == IF s # <<>> /\ s[1] = "0" THEN StripZeros(Tail(s)) ELSE s
RECURSIVE NumeralGreater(_, _)
NumeralGreater(a, b) ==
    IF Len(a) # Len(b) THEN Len(a) > Len(b)
    ELSE IF a = <<>> THEN FALSE
    ELSE IF a[1] # b[1] THEN DigitVal(a[1]) > DigitVal(b[1])
    ELSE NumeralGreater(Tail(a), Tail(b))
MaxUint64 == <<"1", "8", "4", "4", "6", "7", "4", "4", "0", "7", "3", "7", "0", "9", "5", "5", "1", "6", "1", "5">>
MaxUint16 == <<"6", "5", "5", "3", "5">>

\* strconv.ParseUint(s, 10, 64): digits only, no sign, no space; a value that
\* does not fit 64 bits is a range error.
ParseUint(s) ==
    IF ~AllDigits(s) THEN [err |-> Err("strconv.ErrSyntax"), n |-> <<>>]
    ELSE IF NumeralGreater(StripZeros(s), MaxUint64) THEN [err |-> Err("strconv.ErrRange"), n |-> MaxUint64]
    ELSE [err |-> NilErr, n |-> StripZeros(s)]

\* uint16(p): the low 16 bits of the value.
RECURSIVE LowBits(_, _)
LowBits(n, acc) == IF n = <<>> THEN acc ELSE LowBits(Tail(n), (acc * 10 + DigitVal(n[1])) % 65536)
uint16(n) == LowBits(n, 0)

\* strconv.Itoa for a port
RECURSIVE Itoa(_)
Itoa(v) == IF v < 10 THEN <<CHOOSE c \in Digits : DigitVal(c) = v>>
           ELSE Append(Itoa(v \div 10), CHOOSE c \in Digits : DigitVal(c) = v % 10)

\* k8sutil.GetOperatorSetting: the setting's value, the default when the key
\* is not set, an error when the config map cannot be read.
GetOperatorSetting(setting, defaultValue) ==
    IF setting.err THEN [err |-> Err("GetOperatorSetting"), value |-> <<>>]
    ELSE IF ~setting.set THEN [err |-> NilErr, value |-> defaultValue]
    ELSE [err |-> NilErr, value |-> setting.value]

\* Mutant: the parsed value is narrowed without the range check.
getPortFromConfig_Unchecked(setting, defaultPort) ==
    LET r == GetOperatorSetting(setting, Itoa(defaultPort))
        port == r.value
        u == ParseUint(port)
    IN  IF r.err # NilErr
        THEN [port |-> defaultPort, err |-> Wrapf(r.err, "failed to load value")]
        ELSE IF TrimSpace(port) = <<>>
        THEN [port |-> defaultPort, err |-> NilErr]
        ELSE IF u.err # NilErr
        THEN [port |-> defaultPort, err |-> Wrapf(u.err, "failed to parse port value")]
        ELSE [port |-> uint16(u.n), err |-> NilErr]

getPortFromConfig(setting, defaultPort) ==
    LET r == GetOperatorSetting(setting, Itoa(defaultPort))
        port == r.value
        u == ParseUint(port)
    IN  IF r.err # NilErr
        THEN [port |-> defaultPort, err |-> Wrapf(r.err, "failed to load value")]
        ELSE IF TrimSpace(port) = <<>>
        THEN [port |-> defaultPort, err |-> NilErr]
        ELSE IF u.err # NilErr
        THEN [port |-> defaultPort, err |-> Wrapf(u.err, "failed to parse port value")]
        ELSE IF NumeralGreater(u.n, MaxUint16)
        THEN [port |-> defaultPort, err |-> Err("port value is greater than 65535")]
        ELSE [port |-> uint16(u.n), err |-> NilErr]

\* The values tried for the port setting: every short string, and the
\* numerals around the 16-bit and the 64-bit limit.
ShortSettings == UNION {[1..n -> SettingChars] : n \in 0..MaxSettingLen}
LimitSettings ==
    {MaxUint16, <<"6", "5", "5", "3", "6">>, <<"0", "6", "5", "5", "3", "5">>,
     <<"1", "3", "1", "0", "7", "9">>, <<"9", "9", "9", "9", "9">>, <<" ", "8", "0">>,
     <<"8", "0", " ">>, <<"+", "8", "0">>, <<"-", "1">>, <<"8", "0", "8", "0">>,
     MaxUint64, [MaxUint64 EXCEPT ![20] = "6"], <<"0">> \o MaxUint64, MaxUint64 \o <<"0">>}
PortSettings ==
    {[err |-> TRUE, set |-> FALSE, value |-> <<>>], [err |-> FALSE, set |-> FALSE, value |-> <<>>]}
        \cup [err : {FALSE}, set : {TRUE}, value : ShortSettings \cup LimitSettings]
DefaultPorts == {0, 9080, 65535}

OtherVars == <<rgwUsers, rgwBuckets, pc, p, calls, ob, chained, initFailure, runs>>

CallGetPortFromConfig ==
    /\ op = "none"
    /\ \E setting \in PortSettings, defaultPort \in DefaultPorts :
        /\ op' = "getPortFromConfig"
        /\ loc' = [setting |-> setting, defaultPort |-> defaultPort]
        /\ ret' = getPortFromConfig(setting, defaultPort)
    /\ UNCHANGED OtherVars

\* corev1.Toleration; the operators are "" (unset), "Exists" and "Equal".
TolerationOpExists == "Exists"
Tolerations == [Key : {"", "k"}, Operator : {"", TolerationOpExists, "Equal"}, Value : {"", "v"}]
MaxTolerations == 2
TolerationLists == UNION {[1..n -> Tolerations] : n \in 0..MaxTolerations}

\* The tolerations setting: unreadable, or its text, which is empty, or does
\* not parse, or is the YAML of a list of tolerations.
TolerationSettings ==
    {[err |-> TRUE, raw |-> "", parsed |-> <<>>], [err |-> FALSE, raw |-> "", parsed |-> <<>>],
     [err |-> FALSE, raw |-> "malformed", parsed |-> <<>>]}
        \cup [err : {FALSE}, raw : {"yaml"}, parsed : TolerationLists]
DefaultTolerations ==
    {<<>>, <<[Key |-> "", Operator |-> "Equal", Value |-> "v"]>>,
     <<[Key |-> "k", Operator |-> TolerationOpExists, Value |-> "v"]>>}

\* k8sutil.YamlToTolerations
YamlToTolerations(setting) ==
    IF setting.raw = "yaml" THEN [err |-> NilErr, tolerations |-> setting.parsed]
    ELSE [err |-> Err("yaml.Unmarshal"), tolerations |-> <<>>]

\* Mutant: the value is cleared before the operator of a keyless toleration is set.
normalizeToleration_ValueFirst(t) ==
    LET t1 == IF t.Operator = TolerationOpExists THEN [t EXCEPT !.Value = ""] ELSE t
    IN  IF t1.Key = "" THEN [t1 EXCEPT !.Operator = TolerationOpExists] ELSE t1

\* The body of getToleration's loop.
normalizeToleration(t) ==
    LET t1 == IF t.Key = "" THEN [t EXCEPT !.Operator = TolerationOpExists] ELSE t
    IN  IF t1.Operator = TolerationOpExists THEN [t1 EXCEPT !.Value = ""] ELSE t1

getToleration(setting, defaultTolerations) ==
    LET y == YamlToTolerations(setting)
    IN  IF setting.err THEN defaultTolerations
        ELSE IF setting.raw = "" THEN defaultTolerations
        ELSE IF y.err # NilErr THEN defaultTolerations
        ELSE [i \in DOMAIN y.tolerations |-> normalizeToleration(y.tolerations[i])]

CallGetToleration ==
    /\ op = "none"
    /\ \E setting \in TolerationSettings, defaultTolerations \in DefaultTolerations :
        /\ op' = "getToleration"
        /\ loc' = [setting |-> setting, defaultTolerations |-> defaultTolerations]
        /\ ret' = getToleration(setting, defaultTolerations)
    /\ UNCHANGED OtherVars

ConfigNext ==
    \/ CallGetPortFromConfig
    \/ CallGetToleration

ConfigSpec == Init /\ [][ConfigNext]_vars

\* ------------------------------------------------------------------ C23
Blank(v) == \A i \in DOMAIN v : v[i] \in Spaces
ExceedsPortRange(v) == NumeralGreater(StripZeros(v), MaxUint16)
ReturnsDefaultPort(failed) == ret.port = loc.defaultPort /\ (ret.err # NilErr <=> failed)

\* C23: getPortFromConfig returns the default port with an error when the
\* setting cannot be read, is no unsigned decimal number or exceeds 65535,
\* the default port without an error when the setting is blank, and otherwise
\* the setting's value without an error; the port returned is within 0..65535.
C23_PortFromConfigDefaultsAndRange ==
    op = "getPortFromConfig" =>
        LET setting == loc.setting
            v == setting.value
        IN  /\ ret.port \in 0..65535
            /\ setting.err => ReturnsDefaultPort(TRUE)
            /\ ~setting.err /\ ~setting.set => ReturnsDefaultPort(FALSE)
            /\ ~setting.err /\ setting.set =>
                 IF Blank(v) THEN ReturnsDefaultPort(FALSE)
                 ELSE IF ~AllDigits(v) \/ ExceedsPortRange(v) THEN ReturnsDefaultPort(TRUE)
                 ELSE ret.port = DecimalVal(v) /\ ret.err = NilErr
\* A numeral above 65535 whose low 16 bits are not the default port was read.
C23_Witness ==
    /\ op = "getPortFromConfig" /\ loc.setting.set /\ AllDigits(loc.setting.value)
    /\ ExceedsPortRange(loc.setting.value)
    /\ ~NumeralGreater(StripZeros(loc.setting.value), MaxUint64)
    /\ uint16(StripZeros(loc.setting.value)) # loc.defaultPort
    /\ ret.port = loc.defaultPort

\* ------------------------------------------------------------------ C28
ReturnsDefaultTolerations == ret = loc.defaultTolerations
Normalized(t) ==
    /\ t.Key = "" => t.Operator = TolerationOpExists
    /\ t.Operator = TolerationOpExists => t.Value = ""

\* C28: getToleration returns the default tolerations unchanged when the
\* setting cannot be read, is empty or does not parse; otherwise every
\* toleration it returns has operator Exists if its key is empty and an empty
\* value if its operator is Exists.
C28_TolerationDefaultsAndNormalForm ==
    op = "getToleration" =>
        IF loc.setting.err \/ loc.setting.raw # "yaml"
        THEN ReturnsDefaultTolerations
        ELSE /\ Len(ret) = Len(loc.setting.parsed)
             /\ \A i \in DOMAIN ret : Normalized(ret[i])
\* A parsed toleration without key, with operator Equal and a value was returned.
C28_Witness ==
    /\ op = "getToleration" /\ ~loc.setting.err /\ loc.setting.raw = "yaml"
    /\ \E i \in DOMAIN loc.setting.parsed :
        /\ loc.setting.parsed[i] = [Key |-> "", Operator |-> "Equal", Value |-> "v"]
        /\ ret[i] = [Key |-> "", Operator |-> TolerationOpExists, Value |-> ""]

\* ------------------------------------------------------------------ C24
\* Revoke has attempted to delete the user of the binding, who does not own
\* the binding's bucket.
RevokeDeletesNonOwner ==
    /\ op = "Revoke"
    /\ \E i \in DOMAIN calls : calls[i].api = "DeleteUser"
    /\ BucketAt(rgwBuckets, ob.BucketName).Owner # ob.cephUser
BucketKnownAbsent ==
    \E i \in DOMAIN calls : calls[i].api = "GetBucketInfo" /\ calls[i].err = Err("NoSuchBucket")
PolicyCallFailed ==
    \E i \in DOMAIN calls : calls[i].api \in PolicyCalls /\ Failed(i) /\ ~NoPolicyYet(i)

\* C24: in any Revoke run the account of the revoked user, who is not the
\* bucket's owner, is deleted only when the bucket's policy no longer holds a
\* statement for that user or the bucket is known not to exist: not after a
\* failed fetch or write of the policy, and not after a bucket lookup that
\* failed for another reason than "not found" while the policy names the user.
C24_RevokeDeletesUserOnlyAfterPolicyDropped ==
    RevokeDeletesNonOwner =>
        /\ ~PolicyCallFailed
        /\ BucketKnownAbsent \/ ~Names(BucketAt(rgwBuckets, ob.BucketName).Statement, ob.cephUser)

\* ------------------------------------------------------------------ C25
\* Update found the user, whose stored quota is disabled, and the binding
\* requests neither limit.
NothingRequestedOfDisabledQuota ==
    /\ pc = "done" /\ UpdateLookedUpUser
    /\ Requested.maxObjects = <<>> /\ Requested.maxSize = <<>>
    /\ StoredQuota.Enabled = "false"

\* C25 as stated: when neither limit is requested and the stored quota is
\* disabled, Update sends no update that sets enabled = true and the quota
\* stays disabled.
C25_Original_DisabledQuotaStaysDisabled ==
    NothingRequestedOfDisabledQuota =>
        /\ \A i \in DOMAIN calls :
             calls[i].api = "SetUserQuota" => calls[i].quota.Enabled # "true"
        /\ ~rgwUsers[ob.cephUser].UserQuota.Enabled

\* C25: when neither limit is requested and the stored quota is disabled,
\* Update sends exactly one quota update, with enabled = true and neither
\* limit set, and returns what it returned; when it succeeds the quota is
\* enabled with the stored limits unchanged.
C25_UpdateEnablesDisabledQuota ==
    NothingRequestedOfDisabledQuota =>
        /\ SentOneQuotaUpdate
        /\ calls[2].quota = [UnsetQuotaSpec EXCEPT !.Enabled = "true"]
        /\ ret.err = NilErr =>
            rgwUsers[ob.cephUser].UserQuota =
                [Enabled |-> TRUE, MaxObjects |-> StoredQuota.MaxObjects.v,
                 MaxSize |-> StoredQuota.MaxSize.v]
C25_Witness ==
    /\ NothingRequestedOfDisabledQuota /\ ret.err = NilErr
    /\ rgwUsers[ob.cephUser].UserQuota.Enabled

\* ================================================================== state resolution
\* initializeCreateOrGrant and initializeDeleteOrRevoke step by step, for one
\* storage class and one state of the cluster.  ResolveSpec runs the
\* resolution alone: op is the resolution that runs, pc its position, p the
\* call's Provisioner with the fields the resolution sets, loc the storage
\* class and the cluster it finds, calls the lookups of the object-store
\* resource it has made, ret the error it returned.
Resolutions == {"initializeCreateOrGrant", "initializeDeleteOrRevoke"}
\* Every resolution starts from a new copy of the Provisioner and from the
\* cluster as it is then, so few resolutions in a row show all there is.
MaxResolutions == 1

\* The endpoint parameter of a storage class: not set (""), or a text in which
\* GetIPFromEndpoint finds host ("" when none) and GetPortFromEndpoint finds
\* port (0 when none).
NoEndpoint == [set |-> FALSE, host |-> "", port |-> 0]
Endpoints == {NoEndpoint} \cup [set : {TRUE}, host : {"", "rgw.example"}, port : {0, 80, 443}]
ResolveStorageClasses == [found : BOOLEAN, objectStoreName : {"", "my-store"}, endpoint : Endpoints]

\* The CephObjectStore resource named by the storage class, when it is there.
NoObjectStore == [found |-> FALSE, Port |-> 0, SecurePort |-> 0]
ObjectStores == {NoObjectStore} \cup [found : {TRUE}, Port : {0, 80}, SecurePort : {0, 443}]
\* What GetTlsCaCert and the steps of setAdminOpsAPIClient run into.
TlsCaCertOutcomes == {"cert", "none", "error"}
AdminOpsOutcomes == {"ok", "cephCluster", "notInitialized", "adminNew"}
Clusters == [store : ObjectStores, tlsCaCert : TlsCaCertOutcomes, adminOps : AdminOpsOutcomes]

ResolveZeroP ==
    [objectStoreName |-> "", endpoint |-> NoEndpoint, objectContext |-> "nil",
     storeDomainName |-> "", storePort |-> 0, tlsCert |-> "nil", adminOpsClient |-> "nil"]

ResolveInit ==
    /\ rgwUsers = [u \in UserIDs |-> AbsentUser]
    /\ rgwBuckets = [b \in BucketNames |-> AbsentBucket]
    /\ op = "none"
    /\ pc = "done"
    /\ p = ResolveZeroP
    /\ loc = [sc |-> CHOOSE sc \in ResolveStorageClasses : TRUE, cluster |-> CHOOSE c \in Clusters : TRUE]
    /\ calls = <<>>
    /\ ret = [err |-> NilErr]
    /\ ob = NilOB
    /\ chained = FALSE
    /\ initFailure = "none"
    /\ runs = 0

ResolveFrame == UNCHANGED <<rgwUsers, rgwBuckets, ob, chained, initFailure>>

\* p.getObjectStore: the resource called p.objectStoreName
getObjectStore(q, store) ==
    [err |-> IF q.objectStoreName # "" /\ store.found THEN NilErr ELSE Err("CephObjectStoreNotFound"),
     store |-> store]

\* cephObject.BuildDomainName: the name of the store's service
BuildDomainName(name) == <<"rook-ceph-rgw", name, "svc">>

\* ObjectStoreSpec.GetPort
GetPort(store) ==
    IF store.Port # 0 THEN [err |-> NilErr, port |-> store.Port]
    ELSE IF store.SecurePort # 0 THEN [err |-> NilErr, port |-> store.SecurePort]
    ELSE [err |-> Err("NoPort"), port |-> 0 - 1]

\* The resolution returns e.
ResolveReturn(e) ==
    /\ pc' = "done"
    /\ ret' = [err |-> e]

\* entry: getStorageClassWithBackoff, then the setters of the receiver fields
ResolveGetStorageClass ==
    /\ pc = "done"
    /\ runs < MaxResolutions
    /\ runs' = runs + 1
    /\ \E o \in Resolutions, sc \in ResolveStorageClasses, cluster \in Clusters :
        /\ op' = o
        /\ loc' = [sc |-> sc, cluster |-> cluster]
        /\ calls' = <<>>
        /\ IF ~sc.found
           THEN /\ ResolveReturn(IF o = "initializeCreateOrGrant" THEN Err("getStorageClass")
                                 ELSE Wrapf(Err("getStorageClass"), "failed to get storage class"))
                /\ p' = ResolveZeroP
           ELSE /\ pc' = "setObjectContext"
                /\ ret' = [err |-> NilErr]
                /\ p' = [ResolveZeroP EXCEPT !.objectStoreName = sc.objectStoreName,
                                             !.endpoint = sc.endpoint]
    /\ ResolveFrame

\* setObjectContext
ResolveSetObjectContext ==
    /\ pc = "setObjectContext"
    /\ LET store == getObjectStore(p, loc.cluster.store)
       IN  IF p.objectStoreName = "" /\ ~p.endpoint.set
           THEN ResolveReturn(Err("store name cannot be empty")) /\ UNCHANGED <<p, calls>>
           ELSE IF p.endpoint.set
           THEN /\ p' = [p EXCEPT !.objectContext = "context"]
                /\ pc' = "populateDomainAndPort"
                /\ UNCHANGED <<ret, calls>>
           ELSE /\ calls' = Append(calls, "setObjectContext")
                /\ IF store.err # NilErr
                   THEN ResolveReturn(Wrapf(store.err, "failed to get cephObjectStore")) /\ UNCHANGED p
                   ELSE /\ p' = [p EXCEPT !.objectContext = "multisite"]
                        /\ pc' = "populateDomainAndPort"
                        /\ UNCHANGED ret
    /\ UNCHANGED <<op, loc, runs>>
    /\ ResolveFrame

\* populateDomainAndPort, with setObjectStoreDomainName and setObjectStorePort
ResolvePopulateDomainAndPort ==
    /\ pc = "populateDomainAndPort"
    /\ LET endpoint == loc.sc.endpoint
           store == getObjectStore(p, loc.cluster.store)
           port == GetPort(store.store)
           wrap(e) == IF op = "initializeCreateOrGrant" THEN Wrapf(e, "failed to set domain and port") ELSE e
       IN  IF endpoint.set
           THEN /\ UNCHANGED calls
                /\ IF endpoint.host = ""
                   THEN /\ ResolveReturn(wrap(Err("failed to discover endpoint IP")))
                        /\ p' = [p EXCEPT !.storeDomainName = endpoint.host]
                   ELSE IF endpoint.port = 0
                   THEN /\ ResolveReturn(wrap(Err("failed to discover endpoint port")))
                        /\ p' = [p EXCEPT !.storeDomainName = endpoint.host, !.storePort = endpoint.port]
                   ELSE /\ p' = [p EXCEPT !.storeDomainName = endpoint.host, !.storePort = endpoint.port]
                        /\ pc' = "setTlsCaCert"
                        /\ UNCHANGED ret
           ELSE IF store.err # NilErr
           THEN /\ calls' = Append(calls, "setObjectStoreDomainName")
                /\ ResolveReturn(wrap(Wrapf(store.err, "failed to set object store domain name")))
                /\ UNCHANGED p
           ELSE /\ calls' = calls \o <<"setObjectStoreDomainName", "setObjectStorePort">>
                /\ p' = [p EXCEPT !.storeDomainName = BuildDomainName(p.objectStoreName),
                                    !.storePort = port.port]
                /\ IF port.err # NilErr
                   THEN ResolveReturn(wrap(Wrapf(port.err, "failed to set object store port")))
                   ELSE pc' = "setTlsCaCert" /\ UNCHANGED ret
    /\ UNCHANGED <<op, loc, runs>>
    /\ ResolveFrame

\* setTlsCaCert; make([]byte, 0) is an empty slice that is not nil.
ResolveSetTlsCaCert ==
    /\ pc = "setTlsCaCert"
    /\ LET objStore == getObjectStore(p, loc.cluster.store)
           wrap(e) == Wrapf(e, "failed to set CA cert")
       IN  /\ calls' = Append(calls, "setTlsCaCert")
           /\ IF objStore.err # NilErr
              THEN ResolveReturn(wrap(objStore.err)) /\ UNCHANGED p
              ELSE IF objStore.store.SecurePort # p.storePort
              THEN /\ p' = [p EXCEPT !.tlsCert = "empty"]
                   /\ pc' = "setAdminOpsAPIClient"
                   /\ UNCHANGED ret
              ELSE IF loc.cluster.tlsCaCert = "error"
              THEN /\ p' = [p EXCEPT !.tlsCert = "nil"]
                   /\ ResolveReturn(wrap(Err("GetTlsCaCert")))
              ELSE /\ p' = [p EXCEPT !.tlsCert = IF loc.cluster.tlsCaCert = "cert" THEN "cert" ELSE "nil"]
                   /\ pc' = "setAdminOpsAPIClient"
                   /\ UNCHANGED ret
    /\ UNCHANGED <<op, loc, runs>>
    /\ ResolveFrame

\* setAdminOpsAPIClient, and what the two resolutions make of its error
ResolveSetAdminOpsAPIClient ==
    /\ pc = "setAdminOpsAPIClient"
    /\ LET Transport == IF p.tlsCert # "nil" THEN "tls" ELSE "default"
           cephObjectStore == getObjectStore(p, loc.cluster.store)
           e == IF cephObjectStore.err # NilErr
                THEN Wrapf(cephObjectStore.err, "failed to get ceph object store")
                ELSE CASE loc.cluster.adminOps = "cephCluster" -> Err("getCephCluster")
                       [] loc.cluster.adminOps = "notInitialized" -> OperatorNotInitializedMessage
                       [] loc.cluster.adminOps = "adminNew" -> Err("admin.New")
                       [] OTHER -> NilErr
       IN  /\ calls' = Append(calls, "setAdminOpsAPIClient")
           /\ IF e = OperatorNotInitializedMessage
              THEN ResolveReturn(OperatorNotInitializedMessage) /\ UNCHANGED p
              ELSE IF e # NilErr
              THEN ResolveReturn(Wrapf(e, "failed to set admin ops api client")) /\ UNCHANGED p
              ELSE /\ ResolveReturn(NilErr)
                   /\ p' = [p EXCEPT !.adminOpsClient = [Transport |-> Transport, tlsCert |-> p.tlsCert]]
    /\ UNCHANGED <<op, loc, runs>>
    /\ ResolveFrame

ResolveNext ==
    \/ ResolveGetStorageClass
    \/ ResolveSetObjectContext
    \/ ResolvePopulateDomainAndPort
    \/ ResolveSetTlsCaCert
    \/ ResolveSetAdminOpsAPIClient

ResolveSpec == ResolveInit /\ [][ResolveNext]_vars

\* ------------------------------------------------------------------ C26
\* The storage class supplies an endpoint with a host and a port.
EndpointSupplied ==
    /\ op \in Resolutions /\ loc.sc.found
    /\ loc.sc.endpoint.set /\ loc.sc.endpoint.host # "" /\ loc.sc.endpoint.port # 0
\* Nothing but the object-store resource stands in the resolution's way.
NothingElseFails == loc.cluster.tlsCaCert # "error" /\ loc.cluster.adminOps = "ok"
DomainAndPortFromEndpoint ==
    p.storeDomainName = loc.sc.endpoint.host /\ p.storePort = loc.sc.endpoint.port
ResolutionSucceeded == op \in Resolutions /\ pc = "done" /\ ret.err = NilErr

\* C26: when the storage class supplies an endpoint with a host and a
\* non-zero port, the resolution looks up no object-store resource, takes
\* domain name and port from the endpoint, and succeeds whether or not the
\* object-store resource is found.
C26_EndpointNeedsNoObjectStore ==
    EndpointSupplied =>
        /\ calls = <<>>
        /\ (pc = "done" /\ NothingElseFails) => (ret.err = NilErr /\ DomainAndPortFromEndpoint)

\* ------------------------------------------------------------------ C27
TlsNeeded == p.storePort = loc.cluster.store.SecurePort /\ p.tlsCert = "cert"

\* C27: after a successful resolution the admin API's HTTP client has a TLS
\* transport if and only if the resolved store port is the object store's
\* secure port and a CA certificate was fetched.
C27_TlsTransportOnlyWhenNeeded ==
    ResolutionSucceeded => (p.adminOpsClient.Transport = "tls" <=> TlsNeeded)


====
